---- MODULE Spec2Model ----
(***************************************************************************)
(* Conversation / presentation orchestration of the assistant front-end   *)
(* (src/index.tsx, component App): the status machine, the turn           *)
(* dispatcher handleUserMessage, the presentation build                   *)
(* generatePresentation and the rate-limit lockout.                       *)
(*                                                                         *)
(* Every asynchronous handler is a process whose position (pc) is part of *)
(* the state; each action is the code that runs between two suspension    *)
(* points (await / timer / event), with all React state updates of that   *)
(* stretch applied together.                                              *)
(***************************************************************************)
EXTENDS Integers, Sequences, FiniteSets, TLC

(***************************************************************************)
(* Bounds of the model.                                                   *)
(***************************************************************************)
\* activations of handleUserMessage that can be pending together
MaxTurns == 2
\* slides in one structured response
MaxSlides == 2
\* user inputs in one run (typing, submissions, toggles, staging)
MaxInputs == 4
\* granularity of time
TickMs == 30000
\* files in one batch of an upload
MaxBatch == 2
\* inputs of the user up to which the two sets are changed
MaxSetInputs == 2

\* setTimeout(..., 60000) in the ordinary-chat catch block
LockoutMs == 60000

Null == "null"
NoChat == 0
NoRequest == [pending |-> FALSE, examineFile |-> Null, pastedImage |-> Null]
ERROR == "ERROR"
PENDING == "pending"
IMAGE == "data:image/jpeg;base64"

(***************************************************************************)
(* Strings are sequences of one-character strings, so that trim() and the *)
(* keyword pattern are computed and not assumed.                          *)
(***************************************************************************)
Upper == <<"A","B","C","D","E","F","G","H","I","J","K","L","M","N","O","P","Q","R","S","T","U","V","W","X","Y","Z">>
Lower == <<"a","b","c","d","e","f","g","h","i","j","k","l","m","n","o","p","q","r","s","t","u","v","w","x","y","z">>

\* LowerChar that keeps the case
LowerChar_KeepsCase(c) == c

\* the lower-case form of a character, as the i flag folds it
LowerChar(c) ==
    IF \E k \in 1..Len(Upper) : Upper[k] = c
    THEN Lower[CHOOSE k \in 1..Len(Upper) : Upper[k] = c]
    ELSE c

ToLower(s) == [k \in 1..Len(s) |-> LowerChar(s[k])]

IsSpace(c) == c \in {" ", "\n", "\t"}

RECURSIVE TrimStart(_)
TrimStart(s) ==
    IF s # <<>> /\ IsSpace(Head(s)) THEN TrimStart(Tail(s)) ELSE s

RECURSIVE TrimEnd(_)
TrimEnd(s) ==
    IF s # <<>> /\ IsSpace(s[Len(s)]) THEN TrimEnd(SubSeq(s, 1, Len(s) - 1)) ELSE s

\* String.prototype.trim
Trim(s) == TrimEnd(TrimStart(s))

Contains(s, p) ==
    \E k \in 1..(Len(s) - Len(p) + 1) : SubSeq(s, k, k + Len(p) - 1) = p

Keywords ==
    { <<"p","r","e","s","e","n","t","a","z","i","o","n","e">>,
      <<"d","i","a","p","o","s","i","t","i","v","e">>,
      <<"s","l","i","d","e","s","h","o","w">> }

\* /presentazione|diapositive|slideshow/i.test(transcript)
IsPresentationRequest(transcript) ==
    \E kw \in Keywords : Contains(ToLower(transcript), kw)

\* what the user can type or dictate
Texts ==
    { <<" ">>,
      <<"c","i","a","o">>,
      <<"S","l","i","d","e","S","H","O","W"," ">> }

(***************************************************************************)
(* State of the App component.                                            *)
(***************************************************************************)
VARIABLES
    mounted,            \* the one-time initialization effect has run
    isAiInitialized,
    status,
    chatHistory,
    chat,               \* the chat handle (a session number) or NoChat
    nSessions,          \* sessions created so far by chats.create
    nCtx,               \* changes of sources, templates or search flag so far
    sessionCtx,         \* for each session, the context it was created from
    systemInstruction,  \* the assembled system instruction, as text pieces
    useGoogleSearch,
    inputText,
    pastedImage,
    examineFile,
    screenStream,
    isApiLocked,
    timers,             \* remaining ms of the pending unlock timers, ascending
    rec,                \* the SpeechRecognition object: off or on (started)
    turn,               \* the activations of handleUserMessage, by slot
    presentationSlides,
    showPresentation,
    currentSlide,
    examReq,            \* a FileReader of handleExamineFileChange is pending (its closure)
    pasteReq,           \* a FileReader of handlePaste is pending (its closure)
    shareReq,           \* a getDisplayMedia request is pending (its closure)
    uploadedFiles,      \* the knowledge sources, by name
    uploadedTemplates,  \* the templates, by name
    sourcesReq,         \* the batch of a pending handleSourcesFileChange, or << >>
    templatesReq,       \* the batch of a pending handleTemplatesFileChange, or << >>
    importReq,          \* a pending handleImportGoogleSheet (its closure)
    importStatus,       \* importStatus.type of the sources modal
    localStorage,       \* the two sets as the persistence effects wrote them
    isSavingPdf,
    save,               \* the activation of handleSavePresentation: its closure and its pdf
    savedPdf,           \* the pages of the document written by pdf.save
    nInputs             \* user inputs so far

aiVars == << mounted, isAiInitialized >>
chatVars ==
    << chat, nSessions, nCtx, sessionCtx, systemInstruction, useGoogleSearch >>
stagedVars == << pastedImage, examineFile, screenStream >>
lockVars == << isApiLocked, timers >>
slideVars == << presentationSlides, showPresentation, currentSlide >>
reqVars == << examReq, pasteReq, shareReq >>
exportVars == << isSavingPdf, save, savedPdf >>
sourceVars ==
    << uploadedFiles, uploadedTemplates, sourcesReq, templatesReq, importReq,
       importStatus, localStorage >>

vars ==
    << aiVars, status, chatHistory, chatVars, inputText, stagedVars, lockVars,
       rec, turn, slideVars, reqVars, exportVars, sourceVars, nInputs >>

TurnIds == 1..MaxTurns

Msg(id, sender, text) == [id |-> id, sender |-> sender, text |-> text]

\* prev.filter(m => m.id !== <id>)
WithoutId(hist, id) ==
    LET Keep(m) == m.id # id IN SelectSeq(hist, Keep)

\* a slot without an activation; pc also keeps how the last one ended
NoTurn ==
    [pc |-> "none", via |-> Null, transcript |-> <<>>, image |-> Null,
     file |-> Null, chat |-> NoChat, slides |-> <<>>, done |-> <<>>,
     errorCount |-> 0]

Ended == {"none", "done", "built", "failed", "rateLimited", "returned"}

\* no Google Sheet import is running
NoImport == [pending |-> FALSE, files |-> <<>>, fileName |-> Null]

\* no export is running
NoSave == [slides |-> <<>>, index |-> 0, pages |-> <<>>]

\* the activation in slot i has ended with outcome pc
End(i, pc) == [turn EXCEPT ![i] = [NoTurn EXCEPT !.pc = pc]]

Init ==
    /\ mounted = FALSE
    /\ isAiInitialized = FALSE
    /\ status = "idle"
    /\ chatHistory = << Msg("system-init", "system", "Inizializzazione assistente") >>
    /\ chat = NoChat
    /\ nSessions = 0
    /\ nCtx = 0
    /\ sessionCtx = <<>>
    /\ systemInstruction = <<>>
    /\ useGoogleSearch = FALSE
    /\ inputText = <<>>
    /\ pastedImage = Null
    /\ examineFile = Null
    /\ screenStream = Null
    /\ isApiLocked = FALSE
    /\ timers = <<>>
    /\ rec = "off"
    /\ turn = [i \in TurnIds |-> NoTurn]
    /\ presentationSlides = <<>>
    /\ showPresentation = FALSE
    /\ currentSlide = 0
    /\ examReq = NoRequest
    /\ pasteReq = NoRequest
    /\ shareReq = NoRequest
    /\ uploadedFiles = <<>>
    /\ uploadedTemplates = <<>>
    /\ localStorage = [files |-> <<>>, templates |-> <<>>]
    /\ sourcesReq = <<>>
    /\ templatesReq = <<>>
    /\ importReq = NoImport
    /\ importStatus = "idle"
    /\ isSavingPdf = FALSE
    /\ save = NoSave
    /\ savedPdf = <<>>
    /\ nInputs = 0

\* one more user input
Input ==
    /\ nInputs < MaxInputs
    /\ nInputs' = nInputs + 1

(***************************************************************************)
(* The system instruction.  A text is the sequence of its pieces; a       *)
(* document is its name, and its content is a piece that stands for it.   *)
(***************************************************************************)
BaseSystemInstruction == "Sei un assistente AI avanzato"
SourcesFraming == "Usa i seguenti documenti come fonte primaria"
TemplatesFraming == "Inoltre, hai a disposizione i seguenti modelli di lettera"
Separator == "\n\n"

\* file.content of the document with this name
ContentOf(name) ==
    IF name = "a.txt" THEN "testo di a.txt" ELSE "righe del foglio"

\* `--- INIZIO X: ${name} ---\n\n${content}\n\n--- FINE X: ${name} ---`
Block(begin, end, name) ==
    << begin, name, " ---", Separator, ContentOf(name), Separator,
       end, name, " ---" >>

\* blocks.join('\n\n')
RECURSIVE Join(_)
Join(blocks) ==
    IF blocks = <<>> THEN <<>>
    ELSE IF Len(blocks) = 1 THEN blocks[1]
    ELSE blocks[1] \o << Separator >> \o Join(Tail(blocks))

\* uploadedFiles.map(file => ...).join('\n\n')
FileContext(files) ==
    Join([k \in 1..Len(files) |->
            Block("--- INIZIO DOCUMENTO: ", "--- FINE DOCUMENTO: ", files[k])])

\* uploadedTemplates.map(template => ...).join('\n\n')
TemplatesContext(templates) ==
    Join([k \in 1..Len(templates) |->
            Block("--- INIZIO MODELLO: ", "--- FINE MODELLO: ", templates[k])])

\* FullSystemInstruction with the templates section before the sources
FullSystemInstruction_TemplatesFirst(files, templates) ==
    LET fileContext == FileContext(files)
        templatesContext == TemplatesContext(templates)
        withTemplates ==
            IF templatesContext # <<>>
            THEN << BaseSystemInstruction, Separator, TemplatesFraming, Separator >>
                     \o templatesContext
            ELSE << BaseSystemInstruction >>
    IN  IF fileContext # <<>>
        THEN withTemplates \o << Separator, SourcesFraming, Separator >> \o fileContext
        ELSE withTemplates

\* fullSystemInstruction of initializeChatSession
FullSystemInstruction(files, templates) ==
    LET fileContext == FileContext(files)
        templatesContext == TemplatesContext(templates)
        withFiles ==
            IF fileContext # <<>>
            THEN << BaseSystemInstruction, Separator, SourcesFraming, Separator >>
                     \o fileContext
            ELSE << BaseSystemInstruction >>
    IN  IF templatesContext # <<>>
        THEN withFiles \o << Separator, TemplatesFraming, Separator >>
                 \o templatesContext
        ELSE withFiles

(***************************************************************************)
(* initializeChatSession: the effect on [isAiInitialized, uploadedFiles,  *)
(* uploadedTemplates, useGoogleSearch].  The function has no await, so it *)
(* runs to its finally block in one stretch: status ends as idle, the     *)
(* transcript is replaced, and the chat handle is replaced when           *)
(* chats.create succeeds.                                                 *)
(***************************************************************************)
InitializeChatSession(created) ==
    /\ status' = "idle"
    /\ systemInstruction' = FullSystemInstruction(uploadedFiles, uploadedTemplates)
    /\ IF created
       THEN /\ chat' = nSessions + 1
            /\ nSessions' = nSessions + 1
            /\ sessionCtx' = Append(sessionCtx, nCtx')
            /\ chatHistory' = << Msg("ai-welcome", "ai", "welcome") >>
       ELSE /\ UNCHANGED << chat, nSessions, sessionCtx >>
            /\ chatHistory' = << Msg("system-error-chat", "system", "Impossibile creare una sessione di chat") >>

\* the one-time initialization effect: API key present and client built, or not
MountEffect ==
    /\ ~mounted
    /\ mounted' = TRUE
    /\ UNCHANGED nCtx
    /\ \/ /\ isAiInitialized' = TRUE
          /\ \E created \in BOOLEAN : InitializeChatSession(created)
       \/ /\ isAiInitialized' = FALSE
          /\ chatHistory' = << Msg("system-error-apikey", "system", "chiave API non trovata") >>
          /\ UNCHANGED << status, chat, nSessions, sessionCtx,
                          systemInstruction >>
    /\ UNCHANGED << useGoogleSearch, inputText, stagedVars, lockVars, rec,
                    turn, slideVars, reqVars, nInputs, exportVars,
                    sourceVars >>

\* the search checkbox: setUseGoogleSearch, then the effect above
ToggleGoogleSearch ==
    /\ mounted
    /\ Input
    /\ useGoogleSearch' = ~useGoogleSearch
    /\ nCtx' = nCtx + 1
    /\ IF isAiInitialized
       THEN \E created \in BOOLEAN : InitializeChatSession(created)
       ELSE UNCHANGED << status, chat, nSessions, sessionCtx,
                         systemInstruction, chatHistory >>
    /\ UNCHANGED << aiVars, inputText, stagedVars, lockVars, rec, turn,
                    slideVars, reqVars, exportVars, sourceVars >>

(***************************************************************************)
(* handleUserMessage.                                                     *)
(***************************************************************************)
\* prev.filter(m => !m.id.startsWith('system-ready-'))
WithoutReady(hist) == WithoutId(hist, "system-ready")

UserMessage(transcript, image) ==
    [id |-> "user", sender |-> "user", text |-> transcript, image |-> image]

\* the guard on the first line of handleUserMessage
CanHandle ==
    /\ chat # NoChat
    /\ isAiInitialized
    /\ ~isApiLocked
    /\ status # "processing"

\* UseJsonMode decided on the text alone
UseJsonMode_IgnoringImage(transcript, imageToProcess) ==
    IsPresentationRequest(transcript)

\* isPresentationRequest && aiRef.current && !imageToProcess (aiRef.current is
\* set whenever isAiInitialized is)
UseJsonMode(transcript, imageToProcess) ==
    IsPresentationRequest(transcript) /\ imageToProcess = Null

\* the part of handleUserMessage from the userMessage construction to the
\* backend call of the chosen branch; r is the activation with its closure
Dispatch(i, r) ==
    LET hist1 == Append(chatHistory, UserMessage(r.transcript, r.image))
        hist2 == IF r.file # Null THEN WithoutReady(hist1) ELSE hist1
    IN  /\ status' = "processing"
        /\ inputText' = <<>>
        /\ pastedImage' = Null
        /\ IF UseJsonMode(r.transcript, r.image)
           THEN /\ chatHistory' = Append(hist2, Msg("system-proc", "system", "sto creando la struttura"))
                /\ turn' = [turn EXCEPT ![i] = [r EXCEPT !.pc = "genContent"]]
           ELSE /\ chatHistory' = hist2
                /\ turn' = [turn EXCEPT ![i] = [r EXCEPT !.pc = "send"]]

\* requestContents / messageToSend contain the text of fileToExamine: in the
\* structured branch and in the ordinary branch without an image
RequestHasFile(r) == r.file # Null /\ r.image = Null

\* the slots that can take a new activation
FreeSlots == { i \in TurnIds : turn[i].pc \in Ended }

\* a call handleUserMessage(transcript); sets status, chatHistory, inputText,
\* pastedImage and turn
HandleUserMessage(transcript, via) ==
    IF ~CanHandle
    THEN UNCHANGED << status, chatHistory, inputText, pastedImage, turn >>
    ELSE /\ FreeSlots # {}
         /\ LET i == CHOOSE f \in FreeSlots : \A g \in FreeSlots : f <= g
                r == [NoTurn EXCEPT !.via = via, !.transcript = transcript,
                                    !.image = pastedImage, !.file = examineFile,
                                    !.chat = chat]
            IN  IF screenStream # Null
                THEN /\ status' = "processing"
                     /\ turn' = [turn EXCEPT ![i] = [r EXCEPT !.pc = "capture"]]
                     /\ UNCHANGED << chatHistory, inputText, pastedImage >>
                ELSE Dispatch(i, r)

\* captureScreenFrame resolved
CaptureOk(i) ==
    /\ turn[i].pc = "capture"
    /\ Dispatch(i, [turn[i] EXCEPT !.image = "frame"])
    /\ UNCHANGED << aiVars, chatVars, examineFile, screenStream, lockVars, rec,
                    slideVars, reqVars, nInputs, exportVars, sourceVars >>

\* CaptureFail returning without setStatus('idle')
CaptureFail_KeepsProcessing(i) ==
    /\ turn[i].pc = "capture"
    /\ chatHistory' = Append(chatHistory, Msg("system-err-capture", "system", "Impossibile catturare un'immagine dallo schermo"))
    /\ turn' = End(i, "returned")
    /\ UNCHANGED << aiVars, status, chatVars, inputText, stagedVars, lockVars,
                    rec, slideVars, reqVars, nInputs, exportVars, sourceVars >>

\* captureScreenFrame rejected: the early return
CaptureFail(i) ==
    /\ turn[i].pc = "capture"
    /\ chatHistory' = Append(chatHistory, Msg("system-err-capture", "system", "Impossibile catturare un'immagine dallo schermo"))
    /\ status' = "idle"
    /\ turn' = End(i, "returned")
    /\ UNCHANGED << aiVars, chatVars, inputText, stagedVars, lockVars, rec,
                    slideVars, reqVars, nInputs, exportVars, sourceVars >>

\* SubmitGuard without the check that capture is not running
SubmitGuard_WhileListening ==
    /\ (Trim(inputText) # <<>> \/ pastedImage # Null \/ screenStream # Null)
    /\ isAiInitialized
    /\ status # "processing"
    /\ ~isApiLocked

\* the condition shared by handleKeyDown and handleTextSubmit
SubmitGuard ==
    /\ (Trim(inputText) # <<>> \/ pastedImage # Null \/ screenStream # Null)
    /\ isAiInitialized
    /\ status # "processing"
    /\ status # "listening"
    /\ ~isApiLocked

\* handleTextSubmit, reached by the send button or by Enter without shift
\* (handleKeyDown checks the same condition before requestSubmit)
HandleTextSubmit ==
    /\ mounted
    /\ IF SubmitGuard
       THEN /\ HandleUserMessage(Trim(inputText), "text")
            /\ IF CanHandle THEN Input ELSE UNCHANGED nInputs
       ELSE UNCHANGED << status, chatHistory, inputText, pastedImage, turn, nInputs >>
    /\ UNCHANGED << aiVars, chatVars, examineFile, screenStream, lockVars, rec,
                    slideVars, reqVars, exportVars, sourceVars >>

\* onChange of the textarea, which is disabled unless the app is ready and idle
SetInputText(t) ==
    /\ isAiInitialized
    /\ status = "idle"
    /\ ~isApiLocked
    /\ t # inputText
    /\ Input
    /\ inputText' = t
    /\ UNCHANGED << aiVars, status, chatHistory, chatVars, stagedVars,
                    lockVars, rec, turn, slideVars, reqVars, exportVars,
                    sourceVars >>

(***************************************************************************)
(* The presentation branch and generatePresentation.                      *)
(***************************************************************************)
\* what JSON.parse(result.text) can be: a thrown call, text that is not JSON,
\* an object without a slides array, an empty array, or n slide items
Responses ==
    { [kind |-> k, n |-> 0] : k \in {"throw", "malformed", "noSlides", "empty"} }
        \cup { [kind |-> "slides", n |-> n] : n \in 1..MaxSlides }

\* the slide items of response n to the turn in slot i, as parsed (imageUrl
\* absent)
SlidesContent(i, n) ==
    [k \in 1..n |-> [title |-> << i, k >>, imageUrl |-> PENDING]]

\* ErrorText with the plural wording for every count
ErrorText_AlwaysPlural(errorCount, total) ==
    << "errore durante la generazione di", ToString(errorCount), "su",
       ToString(total), "immagini" >>

\* errorText of generatePresentation, as the words and numbers it is made of
ErrorText(errorCount, total) ==
    IF errorCount = 1
    THEN << "errore durante la generazione di", "1", "immagine" >>
    ELSE << "errore durante la generazione di", ToString(errorCount), "su",
            ToString(total), "immagini" >>

\* slidesContent.slice(n)
Slice(s, n) == SubSeq(s, n + 1, Len(s))

\* Published with the slice taken one slide too early
Published_OffByOne(slidesWithImages, slidesContent, slideNumber) ==
    slidesWithImages \o Slice(slidesContent, slideNumber - 1)

\* [...slidesWithImages, ...slidesContent.slice(slideNumber)]
Published(slidesWithImages, slidesContent, slideNumber) ==
    slidesWithImages \o Slice(slidesContent, slideNumber)

\* GenContentReturn whose catch block reports nothing
GenContentReturn_Silent(i, resp) ==
    /\ turn[i].pc = "genContent"
    /\ IF resp.kind = "slides"
       THEN /\ presentationSlides' = SlidesContent(i, resp.n)
            /\ turn' = [turn EXCEPT ![i].pc = "build",
                                    ![i].slides = SlidesContent(i, resp.n)]
            /\ UNCHANGED chatHistory
       ELSE /\ UNCHANGED chatHistory
            /\ turn' = End(i, "failed")
            /\ UNCHANGED presentationSlides
    /\ status' = "idle"
    /\ examineFile' = IF turn[i].file # Null THEN Null ELSE examineFile
    /\ UNCHANGED << aiVars, chatVars, inputText, pastedImage, screenStream,
                    lockVars, rec, showPresentation, currentSlide, reqVars,
                    nInputs, exportVars, sourceVars >>

\* generateContent returned or threw: the rest of the presentation branch.  On
\* a usable response generatePresentation runs, un-awaited, up to its first
\* generateImages call, and then the finally block runs.
GenContentReturn(i, resp) ==
    /\ turn[i].pc = "genContent"
    /\ IF resp.kind = "slides"
       THEN /\ presentationSlides' = SlidesContent(i, resp.n)
            /\ turn' = [turn EXCEPT ![i].pc = "build",
                                    ![i].slides = SlidesContent(i, resp.n)]
            /\ UNCHANGED chatHistory
       ELSE /\ chatHistory' = Append(chatHistory, Msg("system-err", "system", "Non sono riuscito a creare la presentazione"))
            /\ turn' = End(i, "failed")
            /\ UNCHANGED presentationSlides
    /\ status' = "idle"
    /\ examineFile' = IF turn[i].file # Null THEN Null ELSE examineFile
    /\ UNCHANGED << aiVars, chatVars, inputText, pastedImage, screenStream,
                    lockVars, rec, showPresentation, currentSlide, reqVars,
                    nInputs, exportVars, sourceVars >>

\* WithBuildNotice that reports also a build without failures
WithBuildNotice_Always(hist, errorCount, total) ==
    Append(hist, Msg("system-img-gen-err", "system", ErrorText(errorCount, total)))

\* the transcript after the pass over the slides: if (errorCount > 0) the
\* aggregated notice is appended
WithBuildNotice(hist, errorCount, total) ==
    IF errorCount > 0
    THEN Append(hist, Msg("system-img-gen-err", "system", ErrorText(errorCount, total)))
    ELSE hist

\* ImageReturn that leaves the loop at the first failed image
ImageReturn_AbortsOnFailure(i, ok) ==
    /\ turn[i].pc = "build"
    /\ LET r == turn[i]
           slideNumber == Len(r.done) + 1
           newSlide == [r.slides[slideNumber] EXCEPT !.imageUrl = IF ok THEN IMAGE ELSE ERROR]
           slidesWithImages == Append(r.done, newSlide)
       IN  /\ presentationSlides' = Published(slidesWithImages, r.slides, slideNumber)
           /\ IF slideNumber = Len(r.slides) \/ ~ok
              THEN /\ currentSlide' = 0
                   /\ showPresentation' = TRUE
                   /\ turn' = End(i, "built")
              ELSE /\ turn' = [turn EXCEPT ![i].done = slidesWithImages]
                   /\ UNCHANGED << currentSlide, showPresentation >>
    /\ UNCHANGED << aiVars, status, chatHistory, chatVars, inputText,
                    stagedVars, lockVars, rec, reqVars, nInputs, exportVars,
                    sourceVars >>

\* generateImages for slide slideNumber returned (ok) or threw: the rest of
\* the loop body and, after the last slide, the end of generatePresentation
ImageReturn(i, ok) ==
    /\ turn[i].pc = "build"
    /\ LET r == turn[i]
           slideNumber == Len(r.done) + 1
           slide == r.slides[slideNumber]
           newSlide == [slide EXCEPT !.imageUrl = IF ok THEN IMAGE ELSE ERROR]
           slidesWithImages == Append(r.done, newSlide)
           errorCount == IF ok THEN r.errorCount ELSE r.errorCount + 1
           last == slideNumber = Len(r.slides)
       IN  /\ presentationSlides' = Published(slidesWithImages, r.slides, slideNumber)
           /\ IF last
              THEN /\ chatHistory' = WithBuildNotice(chatHistory, errorCount, Len(r.slides))
                   /\ currentSlide' = 0
                   /\ showPresentation' = TRUE
                   /\ turn' = End(i, "built")
              ELSE /\ turn' = [turn EXCEPT ![i].done = slidesWithImages,
                                           ![i].errorCount = errorCount]
                   /\ UNCHANGED << chatHistory, currentSlide, showPresentation >>
    /\ UNCHANGED << aiVars, status, chatVars, inputText, stagedVars, lockVars,
                    rec, reqVars, nInputs, exportVars, sourceVars >>

(***************************************************************************)
(* The ordinary-chat branch and the lockout.                              *)
(***************************************************************************)
\* chat.sendMessage returned (ok) or threw: the rest of the branch
SendReturn(i, ok) ==
    /\ turn[i].pc = "send"
    /\ IF ok
       THEN /\ chatHistory' = Append(chatHistory, Msg("ai", "ai", "risposta"))
            /\ turn' = End(i, "done")
            /\ UNCHANGED lockVars
       ELSE /\ chatHistory' = Append(chatHistory, Msg("system-err", "system", "limite del piano gratuito"))
            /\ turn' = End(i, "rateLimited")
            /\ isApiLocked' = TRUE
            /\ timers' = Append(timers, LockoutMs)
    /\ status' = "idle"
    /\ examineFile' = IF turn[i].file # Null THEN Null ELSE examineFile
    /\ UNCHANGED << aiVars, chatVars, inputText, pastedImage, screenStream,
                    rec, slideVars, reqVars, nInputs, exportVars, sourceVars >>

\* TimerFire that drops the timer without unlocking
TimerFire_NoUnlock ==
    /\ timers # <<>>
    /\ Head(timers) = 0
    /\ timers' = Tail(timers)
    /\ UNCHANGED << aiVars, status, chatHistory, chatVars, inputText,
                    stagedVars, isApiLocked, rec, turn, slideVars, reqVars,
                    nInputs, exportVars, sourceVars >>

\* the callback of setTimeout(() => setIsApiLocked(false), 60000) of the
\* timer that was started first
TimerFire ==
    /\ timers # <<>>
    /\ Head(timers) = 0
    /\ isApiLocked' = FALSE
    /\ timers' = Tail(timers)
    /\ UNCHANGED << aiVars, status, chatHistory, chatVars, inputText,
                    stagedVars, rec, turn, slideVars, reqVars, nInputs,
                    exportVars, sourceVars >>

\* time passes: every pending timer comes TickMs closer to its expiry
Tick ==
    /\ \E k \in 1..Len(timers) : timers[k] > 0
    /\ timers' = [k \in 1..Len(timers) |->
                    IF timers[k] > TickMs THEN timers[k] - TickMs ELSE 0]
    /\ UNCHANGED << aiVars, status, chatHistory, chatVars, inputText,
                    stagedVars, isApiLocked, rec, turn, slideVars, reqVars,
                    nInputs, exportVars, sourceVars >>

(***************************************************************************)
(* Voice capture.  rec is "on" from recognition.start() to the end event  *)
(* of the recognition.  The recognition is one-shot: its result or error  *)
(* event is followed by its end event, and the two handlers are taken     *)
(* together, before any other event.                                      *)
(***************************************************************************)
\* ListenBlocked without the lockout
ListenBlocked_IgnoringLock ==
    \/ ~isAiInitialized
    \/ status = "processing"
    \/ Trim(inputText) # <<>>
    \/ pastedImage # Null

\* the early return of toggleListen
ListenBlocked ==
    \/ ~isAiInitialized
    \/ isApiLocked
    \/ status = "processing"
    \/ Trim(inputText) # <<>>
    \/ pastedImage # Null

\* toggleListen without its early return
ToggleListen_NoEarlyReturn ==
    /\ mounted
    /\ IF status = "listening"
       THEN UNCHANGED << status, chatHistory, rec, nInputs >>
       ELSE /\ Input
            /\ IF rec = "off"
               THEN /\ rec' = "on"
                    /\ status' = "listening"
                    /\ UNCHANGED chatHistory
               ELSE \* start() throws on a recognition that is already started
                    /\ status' = "idle"
                    /\ chatHistory' = Append(chatHistory, Msg("system-sr-start-err", "system", "Impossibile avviare il microfono"))
                    /\ UNCHANGED rec
    /\ UNCHANGED << aiVars, chatVars, inputText, stagedVars, lockVars, turn,
                    slideVars, reqVars, exportVars, sourceVars >>

\* toggleListen; with status listening it calls recognition.stop(), whose end
\* event is RecEnd
ToggleListen ==
    /\ mounted
    /\ ~ListenBlocked
    /\ IF status = "listening"
       THEN UNCHANGED << status, chatHistory, rec, nInputs >>
       ELSE /\ Input
            /\ IF rec = "off"
               THEN /\ rec' = "on"
                    /\ status' = "listening"
                    /\ UNCHANGED chatHistory
               ELSE \* start() throws on a recognition that is already started
                    /\ status' = "idle"
                    /\ chatHistory' = Append(chatHistory, Msg("system-sr-start-err", "system", "Impossibile avviare il microfono"))
                    /\ UNCHANGED rec
    /\ UNCHANGED << aiVars, chatVars, inputText, stagedVars, lockVars, turn,
                    slideVars, reqVars, exportVars, sourceVars >>

\* AfterCapture that leaves every status as it is
AfterCapture_KeepsListening(currentStatus) == currentStatus

\* setStatus(currentStatus => currentStatus === 'listening' ? 'idle' : currentStatus)
AfterCapture(currentStatus) ==
    IF currentStatus = "listening" THEN "idle" ELSE currentStatus

\* RecResult with a handleResult that does not look at screenStream
RecResult_AlwaysSends(t) ==
    /\ Input
    /\ rec = "on"
    /\ rec' = "off"
    /\ LET transcript == Trim(t)
       IN  IF transcript = <<>>
           THEN /\ status' = AfterCapture(status)
                /\ UNCHANGED << chatHistory, inputText, pastedImage, turn >>
           ELSE IF CanHandle
                THEN HandleUserMessage(transcript, "voice")
                ELSE /\ status' = AfterCapture(status)
                     /\ UNCHANGED << chatHistory, inputText, pastedImage, turn >>
    /\ UNCHANGED << aiVars, chatVars, examineFile, screenStream, lockVars,
                    slideVars, reqVars, exportVars, sourceVars >>

\* handleResult with final transcript t, what the user has said, and then
\* handleEnd
RecResult(t) ==
    /\ Input
    /\ rec = "on"
    /\ rec' = "off"
    /\ LET transcript == Trim(t)
       IN  IF transcript = <<>>
           THEN /\ status' = AfterCapture(status)
                /\ UNCHANGED << chatHistory, inputText, pastedImage, turn >>
           ELSE IF screenStream # Null
                THEN /\ inputText' = transcript
                     /\ status' = AfterCapture(status)
                     /\ UNCHANGED << chatHistory, pastedImage, turn >>
                ELSE IF CanHandle
                     THEN HandleUserMessage(transcript, "voice")
                     ELSE /\ status' = AfterCapture(status)
                          /\ UNCHANGED << chatHistory, inputText, pastedImage, turn >>
    /\ UNCHANGED << aiVars, chatVars, examineFile, screenStream, lockVars,
                    slideVars, reqVars, exportVars, sourceVars >>

\* RecError that also starts a lockout
RecError_Locks ==
    /\ rec = "on"
    /\ rec' = "off"
    /\ chatHistory' = Append(chatHistory, Msg("system-sr-err", "system", "errore con il riconoscimento vocale"))
    /\ status' = AfterCapture(status)
    /\ isApiLocked' = TRUE
    /\ timers' = Append(timers, LockoutMs)
    /\ UNCHANGED << aiVars, chatVars, inputText, stagedVars, turn,
                    slideVars, reqVars, nInputs, exportVars, sourceVars >>

\* handleError, and then handleEnd
RecError ==
    /\ rec = "on"
    /\ rec' = "off"
    /\ chatHistory' = Append(chatHistory, Msg("system-sr-err", "system", "errore con il riconoscimento vocale"))
    /\ status' = AfterCapture(status)
    /\ UNCHANGED << aiVars, chatVars, inputText, stagedVars, lockVars, turn,
                    slideVars, reqVars, nInputs, exportVars, sourceVars >>

\* RecEnd with a handleEnd that sets idle whatever the status is
RecEnd_AlwaysIdle ==
    /\ rec = "on"
    /\ rec' = "off"
    /\ status' = "idle"
    /\ UNCHANGED << aiVars, chatHistory, chatVars, inputText, stagedVars,
                    lockVars, turn, slideVars, reqVars, nInputs, exportVars,
                    sourceVars >>

\* handleEnd of a recognition that ends without a result
RecEnd ==
    /\ rec = "on"
    /\ rec' = "off"
    /\ status' = AfterCapture(status)
    /\ UNCHANGED << aiVars, chatHistory, chatVars, inputText, stagedVars,
                    lockVars, turn, slideVars, reqVars, nInputs, exportVars,
                    sourceVars >>

(***************************************************************************)
(* Staged inputs and screen sharing.                                      *)
(***************************************************************************)
\* clearExamineFile, as a function of the state it is applied to
ClearedHistory(hist) == WithoutReady(hist)

\* the x button of the staged document
ClearExamineFile ==
    /\ Input
    /\ examineFile # Null
    /\ examineFile' = Null
    /\ chatHistory' = ClearedHistory(chatHistory)
    /\ UNCHANGED << aiVars, status, chatVars, inputText, pastedImage,
                    screenStream, lockVars, rec, turn, slideVars, reqVars,
                    exportVars, sourceVars >>

\* clearPastedImage: the x button of the image preview
ClearPastedImage ==
    /\ Input
    /\ pastedImage # Null
    /\ pastedImage' = Null
    /\ UNCHANGED << aiVars, status, chatHistory, chatVars, inputText,
                    examineFile, screenStream, lockVars, rec, turn, slideVars,
                    reqVars, exportVars, sourceVars >>

\* handleExamineFileChange up to reader.readAsArrayBuffer; the button is
\* disabled while processing, locked or sharing the screen
ExamineFileChange ==
    /\ Input
    /\ mounted
    /\ status # "processing"
    /\ ~isApiLocked
    /\ screenStream = Null
    /\ ~examReq.pending
    /\ examReq' = [pending |-> TRUE, examineFile |-> examineFile,
                   pastedImage |-> pastedImage]
    /\ examineFile' = Null
    /\ pastedImage' = Null
    /\ chatHistory' = Append(chatHistory, Msg("system-proc-exam", "system", "Sto caricando il documento"))
    /\ UNCHANGED << aiVars, status, chatVars, inputText, screenStream,
                    lockVars, rec, turn, slideVars, pasteReq, shareReq,
                    exportVars, sourceVars >>

\* reader.onload of handleExamineFileChange (extracted: parseFileContent
\* returned text) and its catch block / reader.onerror
ExamineFileLoaded(extracted) ==
    /\ examReq.pending
    /\ examReq' = NoRequest
    /\ IF extracted
       THEN /\ examineFile' = "doc"
            /\ chatHistory' = Append(WithoutId(chatHistory, "system-proc-exam"),
                                     Msg("system-ready", "system", "pronto per l'analisi"))
       ELSE /\ UNCHANGED examineFile
            /\ chatHistory' = Append(WithoutId(chatHistory, "system-proc-exam"),
                                     Msg("system-err", "system", "vuoto o non estratto"))
    /\ UNCHANGED << aiVars, status, chatVars, inputText, pastedImage,
                    screenStream, lockVars, rec, turn, slideVars, pasteReq,
                    shareReq, nInputs, exportVars, sourceVars >>

\* handlePaste of an image, up to reader.readAsDataURL; the textarea takes
\* the event only when enabled, and onPaste skips it during screen sharing
Paste ==
    /\ Input
    /\ isAiInitialized
    /\ status = "idle"
    /\ ~isApiLocked
    /\ screenStream = Null
    /\ ~pasteReq.pending
    /\ pasteReq' = [NoRequest EXCEPT !.pending = TRUE, !.examineFile = examineFile]
    /\ UNCHANGED << aiVars, status, chatHistory, chatVars, inputText,
                    stagedVars, lockVars, rec, turn, slideVars, examReq,
                    shareReq, exportVars, sourceVars >>

\* reader.onload of handlePaste
PasteLoaded ==
    /\ pasteReq.pending
    /\ pasteReq' = NoRequest
    /\ pastedImage' = "pasted"
    /\ IF pasteReq.examineFile # Null
       THEN /\ examineFile' = Null
            /\ chatHistory' = ClearedHistory(chatHistory)
       ELSE UNCHANGED << examineFile, chatHistory >>
    /\ UNCHANGED << aiVars, status, chatVars, inputText, screenStream,
                    lockVars, rec, turn, slideVars, examReq, shareReq,
                    nInputs, exportVars, sourceVars >>

\* handleToggleScreenShare with a stream (button or banner), or the track's
\* onended; the recognition effect depends on screenStream and replaces the
\* SpeechRecognition object after stopping the old one unheard
StopScreenShare ==
    /\ Input
    /\ screenStream # Null
    /\ screenStream' = Null
    /\ rec' = "off"
    /\ UNCHANGED << aiVars, status, chatHistory, chatVars, inputText,
                    pastedImage, examineFile, lockVars, turn, slideVars,
                    reqVars, exportVars, sourceVars >>

\* handleToggleScreenShare without a stream, up to await getDisplayMedia
StartScreenShare ==
    /\ Input
    /\ mounted
    /\ status # "processing"
    /\ ~isApiLocked
    /\ screenStream = Null
    /\ ~shareReq.pending
    /\ shareReq' = [pending |-> TRUE, examineFile |-> examineFile,
                    pastedImage |-> pastedImage]
    /\ UNCHANGED << aiVars, status, chatHistory, chatVars, inputText,
                    stagedVars, lockVars, rec, turn, slideVars, examReq,
                    pasteReq, exportVars, sourceVars >>

\* getDisplayMedia settled: a stream, NotAllowedError, or another error
ScreenShareSettled(outcome) ==
    /\ shareReq.pending
    /\ shareReq' = NoRequest
    /\ CASE outcome = "stream" ->
              /\ examineFile' = IF shareReq.examineFile # Null THEN Null ELSE examineFile
              /\ chatHistory' = IF shareReq.examineFile # Null
                                THEN ClearedHistory(chatHistory) ELSE chatHistory
              /\ pastedImage' = IF shareReq.pastedImage # Null THEN Null ELSE pastedImage
              /\ screenStream' = "stream"
              /\ rec' = "off"
         [] outcome = "denied" ->
              UNCHANGED << examineFile, chatHistory, pastedImage, screenStream, rec >>
         [] outcome = "error" ->
              /\ chatHistory' = Append(chatHistory, Msg("system-screenshare-err", "system", "Impossibile avviare la condivisione"))
              /\ UNCHANGED << examineFile, pastedImage, screenStream, rec >>
    /\ UNCHANGED << aiVars, status, chatVars, inputText, lockVars, turn,
                    slideVars, examReq, pasteReq, nInputs, exportVars,
                    sourceVars >>

(***************************************************************************)
(* Knowledge sources and templates.  A document is its name; a set is the *)
(* array of its documents.  Every setUploadedFiles / setUploadedTemplates *)
(* installs a new array, so the effects that depend on the set run.       *)
(***************************************************************************)
\* the names a file of the user, or an imported sheet, can have
FileNames == {"a.txt", "google-sheet-1.csv"}

\* the names an imported sheet can have: `google-sheet-${sheetId}.csv`
SheetNames == {"google-sheet-1.csv"}

\* an input of the user on one of the sets, within the budget of these inputs
SetInput == nInputs < MaxSetInputs /\ nInputs' = nInputs + 1

\* event.target.files of an upload
Batches == UNION { [1..n -> FileNames] : n \in 1..MaxBatch }

\* WithNewFiles with the new documents put before the existing ones
WithNewFiles_NewFirst(prev, newFiles) ==
    LET existingFileNames == { prev[k] : k \in 1..Len(prev) }
        IsNew(nf) == nf \notin existingFileNames
    IN  SelectSeq(newFiles, IsNew) \o prev

\* prev => [...prev, ...newFiles.filter(nf => !existingFileNames.has(nf.name))]
WithNewFiles(prev, newFiles) ==
    LET existingFileNames == { prev[k] : k \in 1..Len(prev) }
        IsNew(nf) == nf \notin existingFileNames
    IN  prev \o SelectSeq(newFiles, IsNew)

\* files.filter(file => !selectedFiles.has(file.name))
WithoutSelected(files, selectedFiles) ==
    LET Kept(file) == file \notin selectedFiles
    IN  SelectSeq(files, Kept)

\* SetReplaced with a failing write that is caught and not reported
SetReplaced_SilentWriteFailure(hist, files, templates, created, stored, errId) ==
    /\ nCtx' = nCtx + 1
    /\ IF isAiInitialized
       THEN /\ status' = "idle"
            /\ systemInstruction' = FullSystemInstruction(files, templates)
            /\ IF created
               THEN /\ chat' = nSessions + 1
                    /\ nSessions' = nSessions + 1
                    /\ sessionCtx' = Append(sessionCtx, nCtx')
               ELSE UNCHANGED << chat, nSessions, sessionCtx >>
       ELSE /\ created
            /\ UNCHANGED << status, chat, nSessions, sessionCtx,
                            systemInstruction >>
    /\ LET reset ==
               IF ~isAiInitialized THEN hist
               ELSE IF created
                    THEN << Msg("ai-welcome", "ai", "welcome") >>
                    ELSE << Msg("system-error-chat", "system", "Impossibile creare una sessione di chat") >>
       IN  chatHistory' = reset
    /\ localStorage' =
           IF ~stored THEN localStorage
           ELSE IF errId = "system-storage-err"
                THEN [localStorage EXCEPT !.files = files]
                ELSE [localStorage EXCEPT !.templates = templates]

\* the effects that run after a set was replaced, in the order of their
\* declaration: initializeChatSession (chats.create succeeds or throws) and
\* then the persistence effect of the set (localStorage.setItem succeeds, or
\* throws and the warning errId is appended); hist is the transcript that the
\* handler leaves, files and templates are the two sets after the change
SetReplaced(hist, files, templates, created, stored, errId) ==
    /\ nCtx' = nCtx + 1
    /\ IF isAiInitialized
       THEN /\ status' = "idle"
            /\ systemInstruction' = FullSystemInstruction(files, templates)
            /\ IF created
               THEN /\ chat' = nSessions + 1
                    /\ nSessions' = nSessions + 1
                    /\ sessionCtx' = Append(sessionCtx, nCtx')
               ELSE UNCHANGED << chat, nSessions, sessionCtx >>
       ELSE /\ created
            /\ UNCHANGED << status, chat, nSessions, sessionCtx,
                            systemInstruction >>
    /\ LET reset ==
               IF ~isAiInitialized THEN hist
               ELSE IF created
                    THEN << Msg("ai-welcome", "ai", "welcome") >>
                    ELSE << Msg("system-error-chat", "system", "Impossibile creare una sessione di chat") >>
       IN  chatHistory' =
               IF stored THEN reset
               ELSE Append(reset, Msg(errId, "system", "non e' stato possibile salvare nel browser"))
    /\ localStorage' =
           IF ~stored THEN localStorage
           ELSE IF errId = "system-storage-err"
                THEN [localStorage EXCEPT !.files = files]
                ELSE [localStorage EXCEPT !.templates = templates]

\* handleSourcesFileChange up to the reads; the button that opens the file
\* dialog is disabled while processing
SourcesFileChange(batch) ==
    /\ mounted
    /\ status # "processing"
    /\ sourcesReq = <<>>
    /\ SetInput
    /\ sourcesReq' = batch
    /\ chatHistory' = Append(chatHistory, Msg("system-proc-sources", "system", "Elaborazione per le fonti"))
    /\ UNCHANGED << aiVars, status, chatVars, inputText, stagedVars, lockVars,
                    rec, turn, slideVars, reqVars, exportVars, uploadedFiles,
                    uploadedTemplates, templatesReq, importReq, importStatus,
                    localStorage >>

\* Promise.all of handleSourcesFileChange settled: every file was read and
\* extracted (ok), or one of them failed
SourcesLoaded(ok) ==
    /\ sourcesReq # <<>>
    /\ sourcesReq' = <<>>
    /\ IF ok
       THEN /\ uploadedFiles' = WithNewFiles(uploadedFiles, sourcesReq)
            /\ \E created, stored \in BOOLEAN :
                  SetReplaced(WithoutId(chatHistory, "system-proc-sources"),
                              WithNewFiles(uploadedFiles, sourcesReq),
                              uploadedTemplates,
                              created, stored, "system-storage-err")
       ELSE /\ chatHistory' = Append(WithoutId(chatHistory, "system-proc-sources"),
                                     Msg("system-err", "system", "errore di lettura"))
            /\ UNCHANGED << uploadedFiles, status, chatVars, localStorage >>
    /\ UNCHANGED << aiVars, useGoogleSearch, inputText, stagedVars, lockVars,
                    rec, turn, slideVars, reqVars, exportVars,
                    uploadedTemplates, templatesReq, importReq, importStatus,
                    nInputs >>

\* handleTemplatesFileChange up to the reads
TemplatesFileChange(batch) ==
    /\ mounted
    /\ status # "processing"
    /\ templatesReq = <<>>
    /\ SetInput
    /\ templatesReq' = batch
    /\ chatHistory' = Append(chatHistory, Msg("system-proc-templates", "system", "Elaborazione dei modelli"))
    /\ UNCHANGED << aiVars, status, chatVars, inputText, stagedVars, lockVars,
                    rec, turn, slideVars, reqVars, exportVars, uploadedFiles,
                    uploadedTemplates, sourcesReq, importReq, importStatus,
                    localStorage >>

\* Promise.all of handleTemplatesFileChange settled
TemplatesLoaded(ok) ==
    /\ templatesReq # <<>>
    /\ templatesReq' = <<>>
    /\ IF ok
       THEN /\ uploadedTemplates' = WithNewFiles(uploadedTemplates, templatesReq)
            /\ \E created, stored \in BOOLEAN :
                  SetReplaced(WithoutId(chatHistory, "system-proc-templates"),
                              uploadedFiles,
                              WithNewFiles(uploadedTemplates, templatesReq),
                              created, stored, "system-storage-err-templates")
       ELSE /\ chatHistory' = Append(WithoutId(chatHistory, "system-proc-templates"),
                                     Msg("system-err-templates", "system", "errore di lettura"))
            /\ UNCHANGED << uploadedTemplates, status, chatVars,
                            localStorage >>
    /\ UNCHANGED << aiVars, useGoogleSearch, inputText, stagedVars, lockVars,
                    rec, turn, slideVars, reqVars, exportVars, uploadedFiles,
                    sourcesReq, importReq, importStatus, nInputs >>

\* handleRemoveSelected of the sources modal, confirmed, with the selection
\* selectedFiles; handleRemoveAll is the case of every name
RemoveSources(selectedFiles) ==
    /\ mounted
    /\ status # "processing"
    /\ selectedFiles # {}
    /\ selectedFiles \subseteq { uploadedFiles[k] : k \in 1..Len(uploadedFiles) }
    /\ SetInput
    /\ uploadedFiles' = WithoutSelected(uploadedFiles, selectedFiles)
    /\ \E created, stored \in BOOLEAN :
          SetReplaced(chatHistory, WithoutSelected(uploadedFiles, selectedFiles),
                      uploadedTemplates, created, stored, "system-storage-err")
    /\ UNCHANGED << aiVars, useGoogleSearch, inputText, stagedVars, lockVars,
                    rec, turn, slideVars, reqVars, exportVars,
                    uploadedTemplates, sourcesReq, templatesReq, importReq,
                    importStatus >>

\* handleRemoveSelected / handleRemoveAll of the templates modal, confirmed
RemoveTemplates(selectedFiles) ==
    /\ mounted
    /\ status # "processing"
    /\ selectedFiles # {}
    /\ selectedFiles \subseteq { uploadedTemplates[k] : k \in 1..Len(uploadedTemplates) }
    /\ SetInput
    /\ uploadedTemplates' = WithoutSelected(uploadedTemplates, selectedFiles)
    /\ \E created, stored \in BOOLEAN :
          SetReplaced(chatHistory, uploadedFiles,
                      WithoutSelected(uploadedTemplates, selectedFiles),
                      created, stored, "system-storage-err-templates")
    /\ UNCHANGED << aiVars, useGoogleSearch, inputText, stagedVars, lockVars,
                    rec, turn, slideVars, reqVars, exportVars, uploadedFiles,
                    sourcesReq, templatesReq, importReq, importStatus >>

\* handleImportGoogleSheet that throws before the fetch: the URL does not
\* match /spreadsheets/d/<id>, or a file with the name of the sheet is in
\* files; the catch block sets the status of the importer and nothing else
ImportRejected ==
    /\ mounted
    /\ importStatus \in {"idle", "error"}
    /\ SetInput
    /\ importStatus' = "error"
    /\ UNCHANGED << aiVars, status, chatHistory, chatVars, inputText,
                    stagedVars, lockVars, rec, turn, slideVars, reqVars,
                    exportVars, uploadedFiles, uploadedTemplates, sourcesReq,
                    templatesReq, importReq, localStorage >>

\* handleImportGoogleSheet with a valid URL, up to await fetch; a name that
\* is already in files throws, and the button is disabled while loading and,
\* after a success, until a new URL is typed
ImportGoogleSheet(fileName) ==
    /\ mounted
    /\ ~importReq.pending
    /\ importStatus \in {"idle", "error"}
    /\ fileName \notin { uploadedFiles[k] : k \in 1..Len(uploadedFiles) }
    /\ SetInput
    /\ importReq' = [pending |-> TRUE, files |-> uploadedFiles,
                     fileName |-> fileName]
    /\ importStatus' = "loading"
    /\ UNCHANGED << aiVars, status, chatHistory, chatVars, inputText,
                    stagedVars, lockVars, rec, turn, slideVars, reqVars,
                    exportVars, uploadedFiles, uploadedTemplates, sourcesReq,
                    templatesReq, localStorage >>

\* fetch and response.text() settled: the sheet has content (ok), or the
\* import throws; onFilesUpdate gets the files of the closure
ImportSettled(ok) ==
    /\ importReq.pending
    /\ importReq' = NoImport
    /\ importStatus' = IF ok THEN "success" ELSE "error"
    /\ IF ok
       THEN /\ uploadedFiles' = Append(importReq.files, importReq.fileName)
            /\ \E created, stored \in BOOLEAN :
                  SetReplaced(chatHistory,
                              Append(importReq.files, importReq.fileName),
                              uploadedTemplates,
                              created, stored, "system-storage-err")
       ELSE UNCHANGED << uploadedFiles, status, chatHistory, chatVars,
                         localStorage >>
    /\ UNCHANGED << aiVars, useGoogleSearch, inputText, stagedVars, lockVars,
                    rec, turn, slideVars, reqVars, exportVars,
                    uploadedTemplates, sourcesReq, templatesReq, nInputs >>

\* the status line of the importer is cleared: by the timer that follows a
\* success, or by the onChange of the URL field
ImportStatusCleared ==
    /\ importStatus \in {"success", "error"}
    /\ importStatus' = "idle"
    /\ UNCHANGED << aiVars, status, chatHistory, chatVars, inputText,
                    stagedVars, lockVars, rec, turn, slideVars, reqVars,
                    exportVars, uploadedFiles, uploadedTemplates, sourcesReq,
                    templatesReq, importReq, localStorage, nInputs >>

(***************************************************************************)
(* The presentation viewer, rendered while showPresentation is true.  Its  *)
(* keydown listener is installed also when the viewer renders nothing, and *)
(* it does not look at isSaving, so the conditions of the keys cover the   *)
(* conditions of the buttons, which call the same onNext, onPrev, onClose. *)
(***************************************************************************)
Min(a, b) == IF a <= b THEN a ELSE b
Max(a, b) == IF a >= b THEN a ELSE b

\* handleKeyDown of PresentationViewer with the wiring of App:
\* onNext is setCurrentSlide(s => Math.min(s + 1, presentationSlides.length - 1)),
\* onPrev is setCurrentSlide(s => Math.max(s - 1, 0)),
\* onClose is setShowPresentation(false)
ViewerKeyDown(key) ==
    /\ showPresentation
    /\ CASE key = "ArrowRight" ->
              /\ currentSlide < Len(presentationSlides) - 1
              /\ currentSlide' = Min(currentSlide + 1, Len(presentationSlides) - 1)
              /\ UNCHANGED showPresentation
         [] key = "ArrowLeft" ->
              /\ currentSlide > 0
              /\ currentSlide' = Max(currentSlide - 1, 0)
              /\ UNCHANGED showPresentation
         [] key = "Escape" ->
              /\ showPresentation' = FALSE
              /\ UNCHANGED currentSlide
    /\ UNCHANGED << aiVars, status, chatHistory, chatVars, inputText,
                    stagedVars, lockVars, rec, turn, presentationSlides,
                    reqVars, exportVars, sourceVars, nInputs >>

(***************************************************************************)
(* handleSavePresentation: the export of the shown slides to a PDF.  A     *)
(* page is what has been drawn on it: nothing, the picture of a slide, or  *)
(* the error notice of a slide.                                            *)
(***************************************************************************)
BlankPage == [slide |-> << >>, drawn |-> "nothing"]
ImagePage(slide) == [slide |-> slide.title, drawn |-> "image"]
NoticePage(slide) == [slide |-> slide.title, drawn |-> "notice"]

\* pdf.addPage(): a new last page, which becomes the current page
AddPage(pages) == Append(pages, BlankPage)

\* pdf.addImage / pdf.text: drawing on the current page
DrawOn(pages, page) == [pages EXCEPT ![Len(pages)] = page]

\* what the try block can do for a slide: draw it, throw before pdf.addPage
\* (html2canvas or toDataURL), or throw in pdf.addImage, after pdf.addPage
RenderOutcomes == {"drawn", "canvasThrows", "addImageThrows"}

\* the body of the loop for the slide at index (from 0), on the pdf pages
RenderedPages(pages, index, slide, outcome) ==
    LET tried == IF outcome = "canvasThrows" \/ index = 0
                 THEN pages ELSE AddPage(pages)
    IN  IF outcome = "drawn"
        THEN DrawOn(tried, ImagePage(slide))
        ELSE DrawOn(IF index > 0 THEN AddPage(tried) ELSE tried, NoticePage(slide))

\* the slide in the off-screen container: setPdfRenderSlide(slide) at the head
\* of the loop body, setPdfRenderSlide(null) in the cleanup
pdfRenderSlide ==
    IF save = NoSave THEN Null ELSE save.slides[save.index + 1]

\* HandleSavePresentation without the check of the saving flag
HandleSavePresentation_Reentrant ==
    /\ showPresentation
    /\ IF presentationSlides = <<>>
       THEN UNCHANGED << isSavingPdf, save, nInputs >>
       ELSE /\ Input
            /\ isSavingPdf' = TRUE
            /\ save' = [slides |-> presentationSlides, index |-> 0,
                        pages |-> << BlankPage >>]
    /\ UNCHANGED << aiVars, status, chatHistory, chatVars, inputText,
                    stagedVars, lockVars, rec, turn, slideVars, reqVars,
                    savedPdf, sourceVars >>

\* the save button of the viewer: handleSavePresentation up to the first
\* rendering of a slide; new jsPDF() has one page
HandleSavePresentation ==
    /\ showPresentation
    /\ IF isSavingPdf \/ presentationSlides = <<>>
       THEN UNCHANGED << isSavingPdf, save, nInputs >>
       ELSE /\ Input
            /\ isSavingPdf' = TRUE
            /\ save' = [slides |-> presentationSlides, index |-> 0,
                        pages |-> << BlankPage >>]
    /\ UNCHANGED << aiVars, status, chatHistory, chatVars, inputText,
                    stagedVars, lockVars, rec, turn, slideVars, reqVars,
                    savedPdf, sourceVars >>

\* RenderSlide in which a failed rendering is not caught: the handler ends
\* without saving and without its cleanup
RenderSlide_FailureEscapes(outcome) ==
    /\ isSavingPdf
    /\ save # NoSave
    /\ LET slide == save.slides[save.index + 1]
           pages == RenderedPages(save.pages, save.index, slide, outcome)
       IN  IF outcome # "drawn"
           THEN /\ save' = NoSave
                /\ UNCHANGED << savedPdf, isSavingPdf >>
           ELSE IF save.index + 1 = Len(save.slides)
                THEN /\ savedPdf' = pages
                     /\ save' = NoSave
                     /\ isSavingPdf' = FALSE
                ELSE /\ save' = [save EXCEPT !.index = @ + 1, !.pages = pages]
                     /\ UNCHANGED << savedPdf, isSavingPdf >>
    /\ UNCHANGED << aiVars, status, chatHistory, chatVars, inputText,
                    stagedVars, lockVars, rec, turn, slideVars, reqVars,
                    nInputs, sourceVars >>

\* html2canvas for the slide at save.index settled: the rest of the loop body
\* and, after the last slide, pdf.save and the cleanup
RenderSlide(outcome) ==
    /\ isSavingPdf
    /\ LET slide == save.slides[save.index + 1]
           pages == RenderedPages(save.pages, save.index, slide, outcome)
       IN  IF save.index + 1 = Len(save.slides)
           THEN /\ savedPdf' = pages
                /\ save' = NoSave
                /\ isSavingPdf' = FALSE
           ELSE /\ save' = [save EXCEPT !.index = @ + 1, !.pages = pages]
                /\ UNCHANGED << savedPdf, isSavingPdf >>
    /\ UNCHANGED << aiVars, status, chatHistory, chatVars, inputText,
                    stagedVars, lockVars, rec, turn, slideVars, reqVars,
                    nInputs, sourceVars >>

(***************************************************************************)
(* The specification.                                                     *)
(***************************************************************************)
Next ==
    \/ MountEffect
    \/ ToggleGoogleSearch
    \/ HandleTextSubmit
    \/ \E t \in Texts : SetInputText(t)
    \/ \E i \in TurnIds : CaptureOk(i)
    \/ \E i \in TurnIds : CaptureFail(i)
    \/ \E i \in TurnIds, resp \in Responses : GenContentReturn(i, resp)
    \/ \E i \in TurnIds, ok \in BOOLEAN : ImageReturn(i, ok)
    \/ \E i \in TurnIds, ok \in BOOLEAN : SendReturn(i, ok)
    \/ TimerFire
    \/ Tick
    \/ ToggleListen
    \/ \E t \in Texts : RecResult(t)
    \/ RecError
    \/ RecEnd
    \/ ClearExamineFile
    \/ ClearPastedImage
    \/ ExamineFileChange
    \/ \E extracted \in BOOLEAN : ExamineFileLoaded(extracted)
    \/ Paste
    \/ PasteLoaded
    \/ StopScreenShare
    \/ StartScreenShare
    \/ \E outcome \in {"stream", "denied", "error"} : ScreenShareSettled(outcome)

Spec == Init /\ [][Next]_vars

\* the steps of the behaviours in which the user manages the two sets and the
\* search flag and leaves the other controls alone
SourcesNext ==
    \/ MountEffect
    \/ ToggleGoogleSearch
    \/ \E batch \in Batches : SourcesFileChange(batch)
    \/ \E ok \in BOOLEAN : SourcesLoaded(ok)
    \/ \E batch \in Batches : TemplatesFileChange(batch)
    \/ \E ok \in BOOLEAN : TemplatesLoaded(ok)
    \/ \E selectedFiles \in SUBSET FileNames : RemoveSources(selectedFiles)
    \/ \E selectedFiles \in SUBSET FileNames : RemoveTemplates(selectedFiles)
    \/ ImportRejected
    \/ \E fileName \in FileNames : ImportGoogleSheet(fileName)
    \/ \E ok \in BOOLEAN : ImportSettled(ok)
    \/ ImportStatusCleared

SourcesSpec == Init /\ [][SourcesNext]_vars

\* the steps of the behaviours in which the user manages the two sets and
\* leaves the search flag alone too
SetsNext ==
    \/ MountEffect
    \/ \E batch \in Batches : SourcesFileChange(batch)
    \/ \E ok \in BOOLEAN : SourcesLoaded(ok)
    \/ \E batch \in Batches : TemplatesFileChange(batch)
    \/ \E ok \in BOOLEAN : TemplatesLoaded(ok)
    \/ \E selectedFiles \in SUBSET FileNames : RemoveSources(selectedFiles)
    \/ \E selectedFiles \in SUBSET FileNames : RemoveTemplates(selectedFiles)
    \/ ImportRejected
    \/ \E fileName \in SheetNames : ImportGoogleSheet(fileName)
    \/ \E ok \in BOOLEAN : ImportSettled(ok)
    \/ ImportStatusCleared

SetsSpec == Init /\ [][SetsNext]_vars

\* the steps of the behaviours in which the user only uploads batches to the
\* two sets and removes documents from them
UploadsNext ==
    \/ MountEffect
    \/ \E batch \in Batches : SourcesFileChange(batch)
    \/ \E ok \in BOOLEAN : SourcesLoaded(ok)
    \/ \E batch \in Batches : TemplatesFileChange(batch)
    \/ \E ok \in BOOLEAN : TemplatesLoaded(ok)
    \/ \E selectedFiles \in SUBSET FileNames : RemoveSources(selectedFiles)
    \/ \E selectedFiles \in SUBSET FileNames : RemoveTemplates(selectedFiles)

UploadsSpec == Init /\ [][UploadsNext]_vars

\* the steps of the behaviours in which the user gives files and sheet URLs
\* to the program: a document to examine, batches of sources and templates,
\* sheet imports
InputsNext ==
    \/ MountEffect
    \/ ExamineFileChange
    \/ \E extracted \in BOOLEAN : ExamineFileLoaded(extracted)
    \/ \E batch \in Batches : SourcesFileChange(batch)
    \/ \E ok \in BOOLEAN : SourcesLoaded(ok)
    \/ \E batch \in Batches : TemplatesFileChange(batch)
    \/ \E ok \in BOOLEAN : TemplatesLoaded(ok)
    \/ ImportRejected
    \/ \E fileName \in SheetNames : ImportGoogleSheet(fileName)
    \/ \E ok \in BOOLEAN : ImportSettled(ok)
    \/ ImportStatusCleared

InputsSpec == Init /\ [][InputsNext]_vars

\* the arrays that the two useState initializers can read from localStorage:
\* what the persistence effects of an earlier run have written
StoredSets == UNION { [1..n -> FileNames] : n \in 0..MaxBatch }

\* the state after construction with any stored sets
InstructionInit ==
    /\ uploadedFiles \in StoredSets
    /\ uploadedTemplates \in StoredSets
    /\ localStorage = [files |-> uploadedFiles, templates |-> uploadedTemplates]
    /\ mounted = FALSE
    /\ isAiInitialized = FALSE
    /\ status = "idle"
    /\ chatHistory = <<>>
    /\ chat = NoChat
    /\ nSessions = 0
    /\ nCtx = 0
    /\ sessionCtx = <<>>
    /\ systemInstruction = <<>>
    /\ useGoogleSearch = FALSE
    /\ inputText = <<>>
    /\ pastedImage = Null
    /\ examineFile = Null
    /\ screenStream = Null
    /\ isApiLocked = FALSE
    /\ timers = <<>>
    /\ rec = "off"
    /\ turn = [i \in TurnIds |-> NoTurn]
    /\ presentationSlides = <<>>
    /\ showPresentation = FALSE
    /\ currentSlide = 0
    /\ examReq = NoRequest
    /\ pasteReq = NoRequest
    /\ shareReq = NoRequest
    /\ sourcesReq = <<>>
    /\ templatesReq = <<>>
    /\ importReq = NoImport
    /\ importStatus = "idle"
    /\ isSavingPdf = FALSE
    /\ save = NoSave
    /\ savedPdf = <<>>
    /\ nInputs = 0

\* the steps that assemble the system instruction from sets that were stored,
\* or that remain after a removal
InstructionNext ==
    \/ MountEffect
    \/ ToggleGoogleSearch
    \/ \E selectedFiles \in SUBSET FileNames : RemoveSources(selectedFiles)
    \/ \E selectedFiles \in SUBSET FileNames : RemoveTemplates(selectedFiles)

InstructionSpec == InstructionInit /\ [][InstructionNext]_vars

\* the behaviours in which the user asks for presentations and exports them
\* and leaves the other controls alone.  The budget of user inputs is one
\* more than MaxInputs here, for two requests and an export
ExportRaceInit ==
    /\ mounted = FALSE
    /\ isAiInitialized = FALSE
    /\ status = "idle"
    /\ chatHistory = << Msg("system-init", "system", "Inizializzazione assistente") >>
    /\ chat = NoChat
    /\ nSessions = 0
    /\ nCtx = 0
    /\ sessionCtx = <<>>
    /\ systemInstruction = <<>>
    /\ useGoogleSearch = FALSE
    /\ inputText = <<>>
    /\ pastedImage = Null
    /\ examineFile = Null
    /\ screenStream = Null
    /\ isApiLocked = FALSE
    /\ timers = <<>>
    /\ rec = "off"
    /\ turn = [i \in TurnIds |-> NoTurn]
    /\ presentationSlides = <<>>
    /\ showPresentation = FALSE
    /\ currentSlide = 0
    /\ examReq = NoRequest
    /\ pasteReq = NoRequest
    /\ shareReq = NoRequest
    /\ uploadedFiles = <<>>
    /\ uploadedTemplates = <<>>
    /\ localStorage = [files |-> <<>>, templates |-> <<>>]
    /\ sourcesReq = <<>>
    /\ templatesReq = <<>>
    /\ importReq = NoImport
    /\ importStatus = "idle"
    /\ isSavingPdf = FALSE
    /\ save = NoSave
    /\ savedPdf = <<>>
    /\ nInputs = 0 - 1

ExportRaceNext ==
    \/ MountEffect
    \/ \E t \in Texts : SetInputText(t)
    \/ HandleTextSubmit
    \/ \E i \in TurnIds, resp \in Responses : GenContentReturn(i, resp)
    \/ \E i \in TurnIds, ok \in BOOLEAN : ImageReturn(i, ok)
    \/ \E i \in TurnIds, ok \in BOOLEAN : SendReturn(i, ok)
    \/ TimerFire
    \/ Tick
    \/ HandleSavePresentation
    \/ \E outcome \in RenderOutcomes : RenderSlide(outcome)

ExportRaceSpec == ExportRaceInit /\ [][ExportRaceNext]_vars

\* the steps of the program with the controls of the presentation viewer
ViewerNext ==
    \/ Next
    \/ \E key \in {"ArrowRight", "ArrowLeft", "Escape"} : ViewerKeyDown(key)

ViewerSpec == Init /\ [][ViewerNext]_vars

\* the steps of the program with the export of the presentation; the export
\* reads presentationSlides and writes exportVars only
ExportNext ==
    \/ Next
    \/ HandleSavePresentation
    \/ \E outcome \in RenderOutcomes : RenderSlide(outcome)

ExportSpec == Init /\ [][ExportNext]_vars

\* the rendering of a slide settles: the timer of 50 ms fires and html2canvas
\* resolves or rejects
ExportFairness == WF_vars(\E outcome \in RenderOutcomes : RenderSlide(outcome))

ExportLiveSpec == Init /\ [][ExportNext]_vars /\ ExportFairness


\* every backend call, screen-frame capture and timer settles; time passes
Fairness ==
    /\ WF_vars(\E i \in TurnIds : CaptureOk(i) \/ CaptureFail(i))
    /\ WF_vars(\E i \in TurnIds, resp \in Responses : GenContentReturn(i, resp))
    /\ WF_vars(\E i \in TurnIds, ok \in BOOLEAN : ImageReturn(i, ok))
    /\ WF_vars(\E i \in TurnIds, ok \in BOOLEAN : SendReturn(i, ok))
    /\ WF_vars(TimerFire)
    /\ WF_vars(Tick)

LiveSpec == Init /\ [][Next]_vars /\ Fairness

\* a started recognition ends: it is one-shot (continuous = false), and
\* recognition.stop() makes it end at once
VoiceFairness == WF_vars(RecEnd)

VoiceSpec == Init /\ [][Next]_vars /\ VoiceFairness

(***************************************************************************)
(* Properties.                                                            *)
(***************************************************************************)
\* the turns whose backend call (chat send, structured generation, or an image
\* generation of the build they launched) is pending
InFlight == { i \in TurnIds : turn[i].pc \in {"genContent", "send", "build"} }

\* C1: at most one backend call is in flight at any time
C1_AtMostOneCallInFlight == Cardinality(InFlight) <= 1

\* C2: whenever a backend call is in flight, status is processing
C2_InFlightImpliesProcessing == InFlight # {} => status = "processing"

\* C3: from any state with status processing, status idle is eventually reached
C3_ProcessingLeadsToIdle == (status = "processing") ~> (status = "idle")

\* some message of the transcript has this id
Has(id) == \E k \in 1..Len(chatHistory) : chatHistory[k].id = id

\* a turn has gone back to idle by the early return, a later one by a failed
\* backend call
C3_Witness ==
    /\ status = "idle"
    /\ Has("system-err-capture")
    /\ chatHistory[Len(chatHistory)].id = "system-err"
    /\ \E i \in TurnIds : turn[i].pc \in {"failed", "rateLimited"}

\* the acceptance condition of a submission, as the claim states it
SubmitReady ==
    /\ status = "idle"
    /\ ~isApiLocked
    /\ (Trim(inputText) # <<>> \/ pastedImage # Null \/ screenStream # Null)

\* a turn is accepted into slot i in this step
Accepted(i) == turn[i].pc \in Ended /\ turn'[i].pc \notin Ended

\* C4: a submission is accepted only when status is idle, the lockout is off
\* and there is text, a staged image or a screen stream; otherwise the
\* submission changes neither the transcript nor the set of backend calls
C4_SubmitAcceptedOnlyWhenReady ==
    [][ /\ \A i \in TurnIds :
              Accepted(i) /\ turn'[i].via = "text" => SubmitReady
        /\ HandleTextSubmit /\ ~SubmitReady =>
              UNCHANGED << chatHistory, turn, status >> ]_vars

\* a typed turn has been accepted and its backend call is pending
C4_Witness ==
    \E i \in TurnIds :
        /\ turn[i].via = "text"
        /\ turn[i].pc \in {"genContent", "send"}
        /\ status = "processing"

\* C5: a turn that carries an image never issues the structured generation
\* call and never launches a build, whatever its text
C5_ImageTurnIsOrdinaryChat ==
    \A i \in TurnIds :
        turn[i].image # Null =>
            /\ turn[i].pc \in {"capture", "send"}
            /\ turn[i].slides = <<>>

\* a turn with an image and a text that matches the keyword pattern is in the
\* ordinary-chat branch
C5_Witness ==
    \E i \in TurnIds :
        /\ turn[i].image # Null
        /\ IsPresentationRequest(turn[i].transcript)
        /\ turn[i].pc = "send"

\* generatePresentation of the turn in slot i finishes in this step
Finishes(i) == turn[i].pc = "build" /\ turn'[i].pc = "built"

\* C6: when generatePresentation finishes, the published list has the N slides
\* of its input, in input order, each with an image payload or ERROR
C6_AllSlidesSettled ==
    [][ \A i \in TurnIds :
            Finishes(i) =>
                /\ Len(presentationSlides') = Len(turn[i].slides)
                /\ \A k \in 1..Len(turn[i].slides) :
                      /\ presentationSlides'[k].title = turn[i].slides[k].title
                      /\ presentationSlides'[k].imageUrl \in {IMAGE, ERROR} ]_vars

\* the slides of a list whose image generation failed
FailedSlides(slides) ==
    { k \in 1..Len(slides) : slides[k].imageUrl = ERROR }

\* a build of at least two slides has finished with one image and one failure
C6_Witness ==
    /\ \E i \in TurnIds : turn[i].pc = "built"
    /\ showPresentation
    /\ Len(presentationSlides) >= 2
    /\ FailedSlides(presentationSlides) # {}
    /\ \E k \in 1..Len(presentationSlides) : presentationSlides[k].imageUrl = IMAGE
    /\ \A k \in 1..Len(presentationSlides) : presentationSlides[k].imageUrl # PENDING

IsSingular(text) == text[Len(text)] = "immagine"
IsPlural(text) == text[Len(text)] = "immagini"
NamesCount(text, k) ==
    \E p \in 1..(Len(text) - 1) :
        text[p] = "errore durante la generazione di" /\ text[p + 1] = ToString(k)
NamesTotal(text, n) ==
    \E p \in 1..(Len(text) - 1) : text[p] = "su" /\ text[p + 1] = ToString(n)

\* the last message of the transcript after the step
Notice == chatHistory'[Len(chatHistory')]

\* the number k of failed slides of the build that finishes in the step
Failures == Cardinality(FailedSlides(presentationSlides'))

\* C7 as claimed: with k >= 1 failures out of N the notice is singular iff
\* k = 1, plural otherwise, and names both k and N in both cases
C7_NoticeNamesCountAndTotal ==
    [][ \A i \in TurnIds :
            Finishes(i) /\ Failures >= 1 =>
                /\ chatHistory' = Append(chatHistory, Notice)
                /\ IsSingular(Notice.text) <=> Failures = 1
                /\ IsPlural(Notice.text) <=> Failures # 1
                /\ NamesCount(Notice.text, Failures)
                /\ NamesTotal(Notice.text, Len(turn[i].slides)) ]_vars

\* C7 amended: the notice is singular iff k = 1, plural otherwise, and names
\* k in both cases; it names N in the plural case only
C7_NoticeNamesTotalWhenPlural ==
    [][ \A i \in TurnIds :
            Finishes(i) /\ Failures >= 1 =>
                /\ chatHistory' = Append(chatHistory, Notice)
                /\ Notice.sender = "system"
                /\ IsSingular(Notice.text) <=> Failures = 1
                /\ IsPlural(Notice.text) <=> Failures # 1
                /\ NamesCount(Notice.text, Failures)
                /\ NamesTotal(Notice.text, Len(turn[i].slides))
                      <=> Failures # 1 ]_vars

\* the transcript ends with the singular notice of a build of several slides
C7_Witness ==
    /\ chatHistory[Len(chatHistory)].id = "system-img-gen-err"
    /\ IsSingular(chatHistory[Len(chatHistory)].text)
    /\ \E i \in TurnIds : turn[i].pc = "built"
    /\ Len(presentationSlides) >= 2
    /\ Cardinality(FailedSlides(presentationSlides)) = 1

\* C8: a failure of the ordinary-chat call appends one system message and
\* sets the lockout; while the lockout is on no turn is accepted by any path
\* and voice capture is not started
C8_LockoutBlocksTurnsAndCapture ==
    [][ /\ \A i \in TurnIds :
              turn[i].pc = "send" /\ turn'[i].pc = "rateLimited" =>
                  /\ isApiLocked'
                  /\ Len(chatHistory') = Len(chatHistory) + 1
                  /\ SubSeq(chatHistory', 1, Len(chatHistory)) = chatHistory
                  /\ Notice.sender = "system"
        /\ isApiLocked =>
              /\ \A i \in TurnIds : ~Accepted(i)
              /\ rec' = "on" => rec = "on"
              /\ status' = "listening" => status = "listening" ]_vars

\* the lockout is on after an ordinary-chat failure while capture, started
\* before the failure, is still running
C8_Witness ==
    /\ isApiLocked
    /\ rec = "on"
    /\ \E i \in TurnIds : turn[i].pc = "rateLimited"
    /\ \E k \in 1..Len(timers) : timers[k] > 0

\* C9: after every ordinary-chat failure the lockout stays on until 60 seconds
\* have passed (the timer of that failure has run down)
C9_LockedUntilExpiry ==
    \A k \in 1..Len(timers) : timers[k] > 0 => isApiLocked

\* C10: a lockout always ends, and without a lockout a submission that meets
\* the other acceptance conditions is accepted
C10_LockoutEnds ==
    /\ isApiLocked ~> ~isApiLocked
    /\ [](SubmitReady /\ isAiInitialized /\ chat # NoChat /\ FreeSlots # {}
             /\ nInputs < MaxInputs
            => ENABLED (HandleTextSubmit /\ \E i \in TurnIds : Accepted(i)))

\* a turn was rate-limited, the timer has expired, and the turn submitted
\* after the failure has been accepted
C10_Witness ==
    /\ ~isApiLocked
    /\ timers = <<>>
    /\ Len(chatHistory) >= 2
    /\ chatHistory[Len(chatHistory) - 1].text = "limite del piano gratuito"
    /\ chatHistory[Len(chatHistory)].sender = "user"
    /\ \E i \in TurnIds : turn[i].pc = "send"

\* C14: at most one of the pasted image and the document under examination
\* is staged, and neither is staged while a screen stream is active
C14_StagedInputsExclusive ==
    /\ ~(pastedImage # Null /\ examineFile # Null)
    /\ screenStream # Null => pastedImage = Null /\ examineFile = Null

\* the turn in slot i reaches the backend call of its branch in this step
Dispatched(i) ==
    /\ turn[i].pc \notin {"send", "genContent"}
    /\ turn'[i].pc \in {"send", "genContent"}

\* the activation of handleUserMessage in slot i returns in this step
TurnEnds(i) ==
    /\ turn[i].pc \in {"capture", "send", "genContent"}
    /\ turn'[i].pc \notin {"capture", "send", "genContent"}

\* C15: the turn that finds a document staged sends its text, the document is
\* cleared when that turn ends, a turn clears only a document it has sent, and
\* no turn takes the document while another pending turn holds it
C15_DocumentConsumedOnce ==
    [][ \A i \in TurnIds :
          /\ Dispatched(i) /\ turn'[i].file # Null => RequestHasFile(turn'[i])
          /\ TurnEnds(i) /\ turn[i].file # Null => examineFile' = Null
          /\ TurnEnds(i) /\ examineFile # Null /\ examineFile' = Null
                => RequestHasFile(turn[i])
          /\ Accepted(i) /\ turn'[i].file # Null
                => \A j \in TurnIds \ {i} :
                      turn[j].pc \in Ended \/ turn[j].file = Null ]_vars

\* C16: while the presentation is shown, no slide of the published list has a
\* pending image
C16_ShownSlidesAreSettled ==
    showPresentation =>
        \A k \in 1..Len(presentationSlides) :
            presentationSlides[k].imageUrl # PENDING

\* C17: a build settles its slides one at a time and in order: each step of a
\* build settles the slide after the ones already settled, with an image or
\* ERROR, and goes on to the next slide unless it was the last one
C17_SlidesInOrderOneAtATime ==
    [][ \A i \in TurnIds :
          /\ turn[i].pc = "genContent" /\ turn'[i].pc = "build"
                => turn'[i].done = <<>> /\ turn'[i].slides # <<>>
          /\ turn[i].pc = "build" /\ turn'[i] # turn[i] =>
                LET k == Len(turn[i].done) + 1
                IN  IF k = Len(turn[i].slides)
                    THEN turn'[i].pc = "built"
                    ELSE /\ turn'[i].pc = "build"
                         /\ turn'[i].slides = turn[i].slides
                         /\ Len(turn'[i].done) = k
                         /\ SubSeq(turn'[i].done, 1, k - 1) = turn[i].done
                         /\ turn'[i].done[k].title = turn[i].slides[k].title
                         /\ turn'[i].done[k].imageUrl \in {IMAGE, ERROR} ]_vars

\* the image of slide 1 has failed and the build is at slide 2
C17_Witness ==
    \E i \in TurnIds :
        /\ turn[i].pc = "build"
        /\ Len(turn[i].slides) >= 2
        /\ Len(turn[i].done) = 1
        /\ turn[i].done[1].imageUrl = ERROR

\* C18: when the extraction of a file chosen for examination fails, a system
\* message is appended and what was staged before the file was chosen (pasted
\* image, document under examination) is still staged
C18_ExtractionFailureKeepsStaged ==
    [][ ExamineFileLoaded(FALSE) =>
          /\ Notice.sender = "system"
          /\ Notice.id = "system-err"
          /\ examReq.examineFile # Null => examineFile' = examReq.examineFile
          /\ examReq.pastedImage # Null => pastedImage' = examReq.pastedImage ]_vars

\* C19: a turn is sent only through a chat handle that was created from the
\* current context
C19_TurnsUseCurrentContext ==
    [][ \A i \in TurnIds :
          turn[i].pc # "send" /\ turn'[i].pc = "send"
              => sessionCtx[turn'[i].chat] = nCtx ]_vars

\* two characters are the same letter, whatever their case
SameLetter(a, b) ==
    a = b \/ \E k \in 1..Len(Upper) : {a, b} = {Upper[k], Lower[k]}

\* some keyword occurs in the text, letter by letter and whatever the case
MatchesKeyword(text) ==
    \E kw \in Keywords :
        \E k \in 1..(Len(text) - Len(kw) + 1) :
            \A j \in 1..Len(kw) : SameLetter(text[k + j - 1], kw[j])

ExportFinishes == isSavingPdf /\ ~isSavingPdf'

\* C13: the exported document has one page per exported slide, in slide order
C13_OnePagePerSlide ==
    [][ ExportFinishes =>
          /\ Len(savedPdf') = Len(save.slides)
          /\ \A k \in 1..Len(save.slides) :
                savedPdf'[k].slide = save.slides[k].title ]_vars

\* a step that changes the knowledge sources, the templates or the search flag
\* while the AI client is initialized
ContextChanged == nCtx' # nCtx /\ isAiInitialized

\* C11: every change of the knowledge-source set, the template set or the
\* search flag, with the AI client initialized, makes one attempt to create a
\* chat session (a session is created, or the transcript opens with the
\* notice of the failed creation) and leaves a transcript of exactly one
\* message, also when the persistence write of the changed set fails
C11_ContextChangeResetsTranscript ==
    [][ ContextChanged =>
            /\ \/ nSessions' = nSessions + 1
               \/ (nSessions' = nSessions /\ chatHistory'[1].id = "system-error-chat")
            /\ Len(chatHistory') = 1 ]_vars

\* the names of the documents of a set are pairwise distinct
NamesDistinct(files) ==
    \A j, k \in 1..Len(files) : j # k => files[j] # files[k]

\* C12: in every reachable state the names of the knowledge sources are
\* pairwise distinct, and so are the names of the templates
C12_NamesPairwiseDistinct ==
    NamesDistinct(uploadedFiles) /\ NamesDistinct(uploadedTemplates)

\* the conditions that the request to start voice capture checks, the typed
\* text counting when it is not blank
CaptureRefused ==
    \/ status = "processing"
    \/ isApiLocked
    \/ Trim(inputText) # <<>>
    \/ pastedImage # Null

\* the same conditions with every typed text counting, blank or not
CaptureRefusedOnAnyText ==
    \/ status = "processing"
    \/ isApiLocked
    \/ inputText # <<>>
    \/ pastedImage # Null

\* C21: a request for voice capture changes neither status nor transcript
\* when status is processing, the lockout is on, the typed text is not blank
\* or an image is staged, and status goes from idle to listening only when
\* none of these hold
C21_CaptureStartsOnlyWhenFree ==
    [][ /\ ToggleListen /\ CaptureRefused => UNCHANGED << status, chatHistory >>
        /\ status = "idle" /\ status' = "listening" => ~CaptureRefused ]_vars

\* C21 as stated: the same with a typed text that is merely non-empty
C21_CaptureRefusedOnNonEmptyText ==
    [][ /\ ToggleListen /\ CaptureRefusedOnAnyText =>
              UNCHANGED << status, chatHistory >>
        /\ status = "idle" /\ status' = "listening" =>
              ~CaptureRefusedOnAnyText ]_vars

\* voice capture is running, started over a typed text of blanks
C21_Witness ==
    /\ status = "listening"
    /\ rec = "on"
    /\ inputText # <<>>
    /\ Trim(inputText) = <<>>

\* what the claim says of a step in which capture yields the final transcript t
\* while status is listening
TranscriptHandled(t) ==
    IF screenStream = Null
    THEN /\ status' = "processing"
         /\ \E i \in TurnIds :
               /\ Accepted(i)
               /\ turn'[i].transcript = Trim(t)
               /\ turn'[i].pc \in {"send", "genContent"}
    ELSE /\ inputText' = Trim(t)
         /\ UNCHANGED turn

C23_ListeningEnds == (status = "listening") ~> (status # "listening")

\* this step appends exactly one message, a system message
OneSystemMessageAppended ==
    /\ Len(chatHistory') = Len(chatHistory) + 1
    /\ SubSeq(chatHistory', 1, Len(chatHistory)) = chatHistory
    /\ chatHistory'[Len(chatHistory')].sender = "system"

\* recognition.start() throws in this step of toggleListen
StartFails == ToggleListen /\ status # "listening" /\ rec = "on"

\* capture ends in this step without a usable transcript
EndsWithoutTranscript ==
    RecEnd \/ \E t \in Texts : RecResult(t) /\ Trim(t) = <<>>

\* C24: a capture error, or a failure to start capture, appends exactly one
\* system message, dispatches no turn and leaves status idle when it was
\* listening; capture that ends without a usable transcript takes status from
\* listening to idle, dispatches no turn and appends nothing
C24_CaptureErrorsAreReported ==
    [][ /\ RecError =>
              /\ OneSystemMessageAppended
              /\ status = "listening" => status' = "idle"
              /\ UNCHANGED turn
        /\ StartFails =>
              /\ OneSystemMessageAppended
              /\ status' = "idle"
              /\ UNCHANGED turn
        /\ EndsWithoutTranscript =>
              /\ status = "listening" => status' = "idle"
              /\ UNCHANGED << turn, chatHistory >> ]_vars

\* a capture error has been reported and status is back to idle
C24_Witness ==
    /\ status = "idle"
    /\ rec = "off"
    /\ chatHistory[Len(chatHistory)].id = "system-sr-err"
    /\ \A i \in TurnIds : turn[i].pc = "none"

\* the backend call of the turn in slot i is pending before and after the step
InFlightStep(i) ==
    /\ turn[i].pc \in {"send", "genContent"}
    /\ turn'[i].pc = turn[i].pc

\* C25: the step that sends the request of an accepted turn clears the staged
\* image and empties the pending text; the request carries the image that was
\* staged when the turn was accepted; and no step changes the image of a
\* request in flight
C25_RequestCarriesStagedImage ==
    [][ \A i \in TurnIds :
          /\ Dispatched(i) => pastedImage' = Null /\ inputText' = <<>>
          /\ Dispatched(i) /\ Accepted(i) => turn'[i].image = pastedImage
          /\ Dispatched(i) /\ turn[i].pc = "capture" /\ turn[i].image # Null
                => turn'[i].image = turn[i].image
          /\ InFlightStep(i) => turn'[i].image = turn[i].image ]_vars

\* the structured generation call of the turn in slot i fails in this step, or
\* its response is unusable
GenerationFails(i) == turn[i].pc = "genContent" /\ turn'[i].pc = "failed"

\* C26: when the structured generation call fails or its response is
\* malformed, without a slide list or with an empty one, exactly one system
\* message is appended, no build starts, the slide list and showPresentation
\* stay as they are, no lockout begins and status is idle after the step
C26_GenerationFailureIsLocal ==
    [][ \A i \in TurnIds :
          GenerationFails(i) =>
              /\ OneSystemMessageAppended
              /\ \A j \in TurnIds : turn'[j].pc = "build" => turn[j].pc = "build"
              /\ UNCHANGED << presentationSlides, showPresentation, isApiLocked,
                              timers >>
              /\ status' = "idle" ]_vars

\* a presentation request has failed at the structured generation call
C26_Witness ==
    /\ \E i \in TurnIds : turn[i].pc = "failed"
    /\ chatHistory[Len(chatHistory)].text = "Non sono riuscito a creare la presentazione"
    /\ status = "idle"
    /\ ~isApiLocked
    /\ presentationSlides = <<>>

\* the backend call of the ordinary-chat turn in slot i fails in this step
ChatCallFails(i) == turn[i].pc = "send" /\ turn'[i].pc = "rateLimited"

\* C27: the lockout goes from off to on only in a step in which the backend
\* call of an ordinary-chat turn fails; no other failure sets it
C27_OnlyChatFailureLocks ==
    [][ ~isApiLocked /\ isApiLocked' => \E i \in TurnIds : ChatCallFails(i) ]_vars

\* the lockout has just begun with the failure of an ordinary-chat call
C27_Witness ==
    /\ isApiLocked
    /\ timers = << LockoutMs >>
    /\ status = "idle"
    /\ \E i \in TurnIds : turn[i].pc = "rateLimited"
    /\ chatHistory[Len(chatHistory)].text = "limite del piano gratuito"

\* the build of the turn in slot i settles a slide that is not its last
SlideSettles(i) ==
    /\ turn[i].pc = "build"
    /\ turn'[i].pc = "build"
    /\ turn'[i].done # turn[i].done

\* C28: a step of a build that is not its last appends no message, also when
\* the image of its slide fails; the last step appends exactly one aggregated
\* system message if at least one slide of the build failed, and none if all
\* succeeded
C28_FailuresAggregated ==
    [][ \A i \in TurnIds :
          /\ SlideSettles(i) => UNCHANGED chatHistory
          /\ Finishes(i) /\ Failures >= 1 =>
                /\ OneSystemMessageAppended
                /\ Notice.id = "system-img-gen-err"
          /\ Finishes(i) /\ Failures = 0 => UNCHANGED chatHistory ]_vars

\* a build in which every slide failed has finished, and the transcript has
\* one notice of it
C28_Witness ==
    /\ \E i \in TurnIds : turn[i].pc = "built"
    /\ Len(presentationSlides) >= 2
    /\ FailedSlides(presentationSlides) = 1..Len(presentationSlides)
    /\ Cardinality({ k \in 1..Len(chatHistory) :
                        chatHistory[k].id = "system-img-gen-err" }) = 1

Following(text, piece) ==
    LET Here(p) == text[p] = piece
        at == SelectSeq([p \in 1..Len(text) |-> p], Here)
    IN  [k \in 1..Len(at) |-> text[at[k] + 1]]

\* the positions of the pieces of a set in a text
Positions(text, pieces) == { p \in 1..Len(text) : text[p] \in pieces }

\* every block that opens with begin is closed by end with the same name, and
\* holds the content of the document between blank lines
Delimited(text, begin, end) ==
    \A p \in Positions(text, {begin}) :
        /\ p + 8 <= Len(text)
        /\ text[p + 2] = " ---"
        /\ text[p + 3] = Separator
        /\ text[p + 4] = ContentOf(text[p + 1])
        /\ text[p + 5] = Separator
        /\ text[p + 6] = end
        /\ text[p + 7] = text[p + 1]
        /\ text[p + 8] = " ---"

\* the number of occurrences of a piece in a text
Count(text, piece) == Cardinality(Positions(text, {piece}))

\* what C30 says of the text assembled from the lists files and templates
Assembled(text, files, templates) ==
    LET sourcesPart ==
            Positions(text, {SourcesFraming, "--- INIZIO DOCUMENTO: ",
                             "--- FINE DOCUMENTO: "})
        templatesPart ==
            Positions(text, {TemplatesFraming, "--- INIZIO MODELLO: ",
                             "--- FINE MODELLO: "})
    IN  /\ text[1] = BaseSystemInstruction
        /\ Following(text, "--- INIZIO DOCUMENTO: ") = files
        /\ Following(text, "--- FINE DOCUMENTO: ") = files
        /\ Following(text, "--- INIZIO MODELLO: ") = templates
        /\ Following(text, "--- FINE MODELLO: ") = templates
        /\ Delimited(text, "--- INIZIO DOCUMENTO: ", "--- FINE DOCUMENTO: ")
        /\ Delimited(text, "--- INIZIO MODELLO: ", "--- FINE MODELLO: ")
        /\ \A p \in sourcesPart, q \in templatesPart : p < q
        /\ Count(text, SourcesFraming) = IF files = <<>> THEN 0 ELSE 1
        /\ Count(text, TemplatesFraming) = IF templates = <<>> THEN 0 ELSE 1
        /\ files = <<>> /\ templates = <<>> => text = << BaseSystemInstruction >>

\* C30: the assembled system instruction is a function of the ordered source
\* list and the ordered template list: the documents appear as begin/end
\* delimited blocks in list order, the sources section before the templates
\* section, a section and its framing are absent when its list is empty, and
\* assembling again from equal lists gives the equal text
C30_InstructionAssembly ==
    /\ [](isAiInitialized =>
             Assembled(systemInstruction, uploadedFiles, uploadedTemplates))
    /\ [][ /\ isAiInitialized
           /\ nCtx' # nCtx
           /\ uploadedFiles' = uploadedFiles
           /\ uploadedTemplates' = uploadedTemplates
           => systemInstruction' = systemInstruction ]_vars

\* the instruction has been assembled from two sources in an order that
\* is not the sorted one, and a template
C30_Witness ==
    /\ isAiInitialized
    /\ nCtx >= 1
    /\ uploadedFiles = << "google-sheet-1.csv", "a.txt" >>
    /\ uploadedTemplates = << "a.txt" >>
    /\ Len(systemInstruction) > 1

\* the persistence effect of the sources ran and its write failed: the set has
\* a new value and the stored copy is not that value
FilesWriteFails ==
    /\ uploadedFiles' # uploadedFiles
    /\ localStorage'.files # uploadedFiles'

\* the persistence effect of the templates ran and its write failed
TemplatesWriteFails ==
    /\ uploadedTemplates' # uploadedTemplates
    /\ localStorage'.templates # uploadedTemplates'

\* the step leaves the warning id as the last message of the transcript and
\* adds no other message: after the reset of an initialized assistant the
\* transcript is the message of the reset and the warning
WarningAppended(id) ==
    /\ chatHistory' # <<>>
    /\ chatHistory'[Len(chatHistory')].id = id
    /\ chatHistory'[Len(chatHistory')].sender = "system"
    /\ IF isAiInitialized
       THEN /\ Len(chatHistory') = 2
            /\ chatHistory'[1].id \in {"ai-welcome", "system-error-chat"}
       ELSE Len(chatHistory') <= Len(chatHistory) + 1

\* a session that was usable is usable after the step
StaysUsable ==
    /\ status' = "idle"
    /\ chat # NoChat => chat' # NoChat

\* C31: when the write of the knowledge sources or of the templates fails, the
\* step appends one system warning to the transcript, the set in memory has
\* the new value, status is idle and the chat handle is still there
C31_WriteFailureIsReported ==
    [][ /\ FilesWriteFails =>
              WarningAppended("system-storage-err") /\ StaysUsable
        /\ TemplatesWriteFails =>
              WarningAppended("system-storage-err-templates") /\ StaysUsable
      ]_vars

\* the write of the sources has failed after an upload: the warning closes
\* the transcript of a usable session and the set is ahead of its stored copy
C31_Witness ==
    /\ isAiInitialized
    /\ uploadedFiles # <<>>
    /\ localStorage.files # uploadedFiles
    /\ chatHistory # <<>>
    /\ chatHistory[Len(chatHistory)].id = "system-storage-err"
    /\ status = "idle"
    /\ chat # NoChat

\* a file of the user could not be read or gave no text
FileInputError ==
    \/ ExamineFileLoaded(FALSE)
    \/ SourcesLoaded(FALSE)
    \/ TemplatesLoaded(FALSE)

\* a sheet import was refused (invalid URL, name taken) or failed
ImportInputError == ImportRejected \/ ImportSettled(FALSE)

\* the step appends a system message that reports an error
ErrorReported ==
    /\ chatHistory' # chatHistory
    /\ chatHistory' # <<>>
    /\ chatHistory'[Len(chatHistory')].sender = "system"
    /\ chatHistory'[Len(chatHistory')].id \in {"system-err", "system-err-templates"}

\* the step leaves status, the chat handle and the two sets alone, and no
\* document is staged by it
SessionUntouched ==
    /\ UNCHANGED << status, chat, uploadedFiles, uploadedTemplates >>
    /\ examineFile' = examineFile
    /\ ExamineFileLoaded(FALSE) => examineFile' = Null

\* C32 for the files of the user: an unreadable file or an empty extraction is
\* reported as a system message and changes nothing of the session
C32_FileErrorsReported ==
    [][ FileInputError => ErrorReported /\ SessionUntouched ]_vars

\* C32: every input error (unreadable file, empty extracted content, invalid
\* sheet import URL) is reported as a system message in the transcript, does
\* not change status, the chat handle, the sources or the templates, and
\* stages nothing
C32_InputErrorsReported ==
    [][ FileInputError \/ ImportInputError
            => ErrorReported /\ SessionUntouched ]_vars

\* the number of messages of a transcript with this id
CountId(hist, id) == Cardinality({ k \in 1..Len(hist) : hist[k].id = id })

\* the step of a failed batch: both sets and the session are as before, the
\* processing notice procId is gone and one message errId is appended
BatchRejected(procId, errId) ==
    /\ UNCHANGED << uploadedFiles, uploadedTemplates, nCtx, chat, nSessions,
                    status, localStorage >>
    /\ CountId(chatHistory', procId) = 0
    /\ Len(chatHistory') = Len(chatHistory) - CountId(chatHistory, procId) + 1
    /\ chatHistory'[Len(chatHistory')].id = errId
    /\ chatHistory'[Len(chatHistory')].sender = "system"

\* after is before followed by the documents of batch whose names are not in
\* before, in the order of the batch
AppendedInBatchOrder(before, after, batch) ==
    LET existing == { before[k] : k \in 1..Len(before) }
        fresh == { k \in 1..Len(batch) : batch[k] \notin existing }
        Nth(j) == CHOOSE k \in fresh :
                      Cardinality({ m \in fresh : m <= k }) = j
    IN  /\ Len(after) = Len(before) + Cardinality(fresh)
        /\ \A k \in 1..Len(before) : after[k] = before[k]
        /\ \A j \in 1..Cardinality(fresh) :
               after[Len(before) + j] = batch[Nth(j)]

\* C33: a batch of sources or templates is added as a whole or not at all: if
\* a file of the batch fails, the sets and the session are unchanged, the
\* processing notice is removed and one error message is appended; if all
\* succeed, the documents with new names follow the existing ones in the
\* order of the batch.  Each conjunct is the implication from the step of
\* the handler to its outcome, written as outcome \/ ~step.
C33_BatchAllOrNothing ==
    [][ /\ \/ BatchRejected("system-proc-sources", "system-err")
           \/ ~SourcesLoaded(FALSE)
        /\ \/ BatchRejected("system-proc-templates", "system-err-templates")
           \/ ~TemplatesLoaded(FALSE)
        /\ \/ /\ AppendedInBatchOrder(uploadedFiles, uploadedFiles', sourcesReq)
              /\ uploadedTemplates' = uploadedTemplates
           \/ ~SourcesLoaded(TRUE)
        /\ \/ /\ AppendedInBatchOrder(uploadedTemplates, uploadedTemplates',
                                      templatesReq)
              /\ uploadedFiles' = uploadedFiles
           \/ ~TemplatesLoaded(TRUE)
      ]_vars

\* a second batch has been added after the sources of a first one
C33_Witness ==
    /\ uploadedFiles = << "google-sheet-1.csv", "a.txt" >>
    /\ localStorage.files = uploadedFiles
    /\ nCtx = 2
    /\ sourcesReq = <<>>
    /\ importStatus = "idle"

\* the ordinary-chat branch of turn i completes: its reply, or the message of
\* its failure, is appended to the transcript
TurnReplies(i) ==
    /\ turn[i].pc = "send"
    /\ turn'[i].pc \in Ended
    /\ Len(chatHistory') = Len(chatHistory) + 1

\* the transcript still holds the request of turn i: it has not been reset
\* since the turn was accepted
RequestInTranscript(i) ==
    \E k \in 1..Len(chatHistory) :
        chatHistory[k] = UserMessage(turn[i].transcript, turn[i].image)

\* C34: a reply or an error message of a turn is appended only to the
\* transcript the turn was accepted in: after a context change has reset the
\* transcript, nothing of a turn dispatched before the reset is appended
C34_NoStaleReplies ==
    [][ \A i \in TurnIds : TurnReplies(i) => RequestInTranscript(i) ]_vars

\* an end or an error event of the recognition is handled
CaptureEvent == RecEnd \/ RecError

\* C35: the end and the error events of the capture change status only from
\* listening to idle, and no capture event, the result included, ends the
\* processing state
C35_CaptureEventsOnlyEndListening ==
    [][ /\ CaptureEvent =>
              status' = IF status = "listening" THEN "idle" ELSE status
        /\ (CaptureEvent \/ \E t \in Texts : RecResult(t))
              /\ status = "processing" => status' = "processing"
      ]_vars

\* the error event arrived after a turn was dispatched: the turn is still in
\* flight and status is processing
C35_Witness ==
    /\ status = "processing"
    /\ rec = "off"
    /\ \E i \in TurnIds : turn[i].pc = "send"
    /\ chatHistory # <<>>
    /\ chatHistory[Len(chatHistory)].id = "system-sr-err"

\* C36: whenever the presentation viewer is shown, the index of the current
\* slide is an index of the published slide list
C36_CurrentSlideInRange ==
    showPresentation =>
        /\ 0 <= currentSlide
        /\ currentSlide <= Len(presentationSlides) - 1

\* an activation of handleSavePresentation gets past its guard: a new
\* document is begun
ExportStarts == save' # save /\ save' # NoSave /\ save'.index = 0

\* the slides on the pages of a document, in page order
SlidesOf(pdf) ==
    LET Drawn(page) == page.drawn # "nothing"
        pages == SelectSeq(pdf, Drawn)
    IN  [k \in 1..Len(pages) |-> pages[k].slide]

\* the titles of a slide list
TitlesOf(slides) == [k \in 1..Len(slides) |-> slides[k].title]

\* C37: one export at a time, of the slide list as it was at its start: an
\* export starts only when none is in progress and the list is not empty,
\* and it takes the published list; while it runs its slides stay the same
\* whatever is published; a document is written only when an export ends,
\* and its pages show the slides the export started with, in order
C37_OneExportOfTheSnapshot ==
    [][ /\ ExportStarts =>
              /\ ~isSavingPdf
              /\ isSavingPdf'
              /\ presentationSlides # <<>>
              /\ save'.slides = presentationSlides
        /\ isSavingPdf /\ isSavingPdf' => save'.slides = save.slides
        /\ savedPdf' # savedPdf => ExportFinishes
        /\ ExportFinishes => SlidesOf(savedPdf') = TitlesOf(save.slides)
      ]_vars

\* an export has ended after the published list was replaced by the slides
\* of another request: the document shows the slides it started with
C37_Witness ==
    /\ ~isSavingPdf
    /\ savedPdf # <<>>
    /\ presentationSlides # <<>>
    /\ SlidesOf(savedPdf) # TitlesOf(presentationSlides)
    /\ SlidesOf(savedPdf)[1][1] # presentationSlides[1].title[1]

\* the pending import completes with a sheet, or fails
ImportSucceeds == importStatus = "loading" /\ importStatus' = "success"
ImportFails == importStatus = "loading" /\ importStatus' = "error"

\* a failed import leaves the knowledge sources as they are
C38_FailedImportKeepsSet ==
    [][ ImportFails => uploadedFiles' = uploadedFiles ]_vars

\* C38: a successful sheet import adds the sheet to the knowledge sources as
\* they are when it completes, whatever was added or removed while the fetch
\* was pending, and a failed import leaves them unchanged
C38_ImportKeepsConcurrentChanges ==
    [][ /\ ImportSucceeds =>
              uploadedFiles' = Append(uploadedFiles, importReq.fileName)
        /\ ImportFails => uploadedFiles' = uploadedFiles ]_vars

\* every document of the batch has a name that is already in the set
AllKnown(batch, files) ==
    \A k \in 1..Len(batch) : batch[k] \in { files[j] : j \in 1..Len(files) }

\* a batch of sources, or of templates, whose names are all in the set already
\* has been read without a failure
DuplicateUpload ==
    \/ SourcesLoaded(TRUE) /\ AllKnown(sourcesReq, uploadedFiles)
    \/ TemplatesLoaded(TRUE) /\ AllKnown(templatesReq, uploadedTemplates)

\* the context-change handling ran: one attempt to create a session, and the
\* transcript is the single welcome message of the new session, or the single
\* notice of the failed creation
ContextReset ==
    /\ nCtx' = nCtx + 1
    /\ \/ /\ nSessions' = nSessions + 1
          /\ chat' = nSessions'
          /\ chatHistory' = << Msg("ai-welcome", "ai", "welcome") >>
       \/ /\ nSessions' = nSessions
          /\ Len(chatHistory') = 1
          /\ chatHistory'[1].id = "system-error-chat"

\* C39: a successful upload in which every name exists already leaves the
\* documents of both sets as they are and still runs the context-change
\* handling: the session is created again and the transcript is reset to the
\* single welcome message
C39_DuplicateUploadStillResets ==
    [][ DuplicateUpload =>
            /\ uploadedFiles' = uploadedFiles
            /\ uploadedTemplates' = uploadedTemplates
            /\ isAiInitialized => ContextReset ]_vars

====
